---- MODULE Spec2Model ----
(***************************************************************************)
(* A model of utils/data_processor.py (class DataProcessor): the cleaning  *)
(* pipeline process_data and the four query operations over the cleaned    *)
(* dataset.                                                                *)
(*                                                                         *)
(* Strings are sequences of one-character strings, so that strip, split,   *)
(* title-casing, regular-expression search and case folding are computed   *)
(* character by character, as pandas / Python compute them.  A missing     *)
(* cell (NaN) is the one-element sequence NaN.  A DataFrame is a sequence  *)
(* of records; the field idx is the DataFrame's index label (the position  *)
(* of the row in the raw input), which pandas keeps through filtering and  *)
(* sorting.  Amounts are integers (the code's floats, without fractions).  *)
(***************************************************************************)
EXTENDS Integers, Sequences, FiniteSets, TLC

VARIABLES columns, raw, df, op, query, call_limit, result

vars == <<columns, raw, df, op, query, call_limit, result>>

(***************************************************************************)
(* Bounds of the model.                                                    *)
(***************************************************************************)
MaxRows == 2

MaxSimilarityRows == 4

MaxCompanyRows == 4

MaxSchemaRows == 1

MaxFieldRows == 2

MaxLabelRows == 1

MaxProfileRows == 2

MaxPickerRows == 2

(***************************************************************************)
(* Characters and strings.                                                 *)
(***************************************************************************)
LowerLetters == <<"a", "b", "c", "d", "e", "f", "g", "h", "i", "j", "k", "l", "m", "n", "o", "p", "q", "r", "s", "t", "u", "v", "w", "x", "y", "z">>

UpperLetters == <<"A", "B", "C", "D", "E", "F", "G", "H", "I", "J", "K", "L", "M", "N", "O", "P", "Q", "R", "S", "T", "U", "V", "W", "X", "Y", "Z">>

IsLower(c) == \E i \in DOMAIN LowerLetters : LowerLetters[i] = c

IsUpper(c) == \E i \in DOMAIN UpperLetters : UpperLetters[i] = c

IsCased(c) == IsLower(c) \/ IsUpper(c)

\* str.lower() of one character
LowerChar(c) ==
    IF IsUpper(c)
    THEN LowerLetters[CHOOSE i \in DOMAIN UpperLetters : UpperLetters[i] = c]
    ELSE c

\* str.upper() of one character
UpperChar(c) ==
    IF IsLower(c)
    THEN UpperLetters[CHOOSE i \in DOMAIN LowerLetters : LowerLetters[i] = c]
    ELSE c

\* str.lower()
Lower(s) == [i \in DOMAIN s |-> LowerChar(s[i])]

\* the whitespace characters of the model's alphabet
IsSpace(c) == c = " "

\* a missing value (NaN / None) in an object column
NaN == <<"<NaN>">>

\* astype(str): NaN becomes the text "nan"; a string stays itself
AsStr(v) == IF v = NaN THEN <<"n", "a", "n">> ELSE v

RECURSIVE LStrip(_)
LStrip(s) == IF s # <<>> /\ IsSpace(Head(s)) THEN LStrip(Tail(s)) ELSE s

RECURSIVE RStrip(_)
RStrip(s) ==
    IF s # <<>> /\ IsSpace(s[Len(s)]) THEN RStrip(SubSeq(s, 1, Len(s) - 1)) ELSE s

\* str.strip()
Strip(s) == RStrip(LStrip(s))

\* str.title(): a cased character is upper-cased when it starts a run of
\* cased characters and lower-cased inside a run; other characters are kept.
Title(s) ==
    [i \in DOMAIN s |->
        IF ~IsCased(s[i]) THEN s[i]
        ELSE IF i > 1 /\ IsCased(s[i - 1]) THEN LowerChar(s[i])
        ELSE UpperChar(s[i])]

Unknown == <<"U", "n", "k", "n", "o", "w", "n">>

(***************************************************************************)
(* process_data: the cleaning of one column value.                         *)
(***************************************************************************)
\* the "no date" value of a datetime column
NaT == 0

IsLeap(y) == (y % 4 = 0 /\ y % 100 # 0) \/ y % 400 = 0

DaysInMonth(y, m) ==
    IF m = 2 THEN (IF IsLeap(y) THEN 29 ELSE 28)
    ELSE IF m \in {4, 6, 9, 11} THEN 30
    ELSE 31

\* pd.to_datetime(errors='coerce') of a date written year-month-day, given by
\* its three numbers (<<>> is a missing cell): a calendar date becomes the
\* day number yyyymmdd, which orders as dates do; anything else becomes NaT.
\* The years are those that lie wholly within the range of a Timestamp.
ToDatetime(d) ==
    IF Len(d) = 3 /\ d[1] \in 1678..2261 /\ d[2] \in 1..12
       /\ d[3] \in 1..DaysInMonth(d[1], d[2])
    THEN d[1] * 10000 + d[2] * 100 + d[3]
    ELSE NaT

\* .dt.year, .dt.month, .dt.quarter
YearOf(date) == date \div 10000

MonthOf(date) == (date \div 100) % 100

QuarterOf(date) == ((MonthOf(date) - 1) \div 3) + 1

StartsWith(s, p) == Len(s) >= Len(p) /\ SubSeq(s, 1, Len(p)) = p

RECURSIVE DropNonSpace(_)
DropNonSpace(s) ==
    IF s # <<>> /\ ~IsSpace(Head(s)) THEN DropNonSpace(Tail(s)) ELSE s

\* str.replace(r'^https?://[^\s]+', '', regex=True): a leading http:// or
\* https:// followed by at least one non-space character is removed up to
\* the first space.
StripUrlPrefix(s) ==
    LET http == <<"h", "t", "t", "p", ":", "/", "/">>
        https == <<"h", "t", "t", "p", "s", ":", "/", "/">>
        rest == IF StartsWith(s, https) THEN SubSeq(s, Len(https) + 1, Len(s))
                ELSE IF StartsWith(s, http) THEN SubSeq(s, Len(http) + 1, Len(s))
                ELSE <<>>
    IN  IF (StartsWith(s, https) \/ StartsWith(s, http))
           /\ rest # <<>> /\ ~IsSpace(Head(rest))
        THEN DropNonSpace(rest)
        ELSE s

\* str.replace(r'["\']', '', regex=True)
StripQuotes(s) == SelectSeq(s, LAMBDA c : c \notin {"\"", "'"})

\* lines 21-23: the cleaned startup name
CleanStartup(v) == StripQuotes(StripUrlPrefix(Strip(AsStr(v))))

Digits == <<"0", "1", "2", "3", "4", "5", "6", "7", "8", "9">>

IsDigit(c) == \E i \in DOMAIN Digits : Digits[i] = c

DigitVal(c) == (CHOOSE i \in DOMAIN Digits : Digits[i] = c) - 1

RECURSIVE DigitsVal(_)
DigitsVal(s) ==
    IF s = <<>> THEN 0
    ELSE DigitsVal(SubSeq(s, 1, Len(s) - 1)) * 10 + DigitVal(s[Len(s)])

AllDigits(s) == s # <<>> /\ \A i \in DOMAIN s : IsDigit(s[i])

\* pd.to_numeric(errors='coerce') of a cell holding an integer numeral with
\* an optional sign, other text, or nothing: ok is FALSE for NaN.
ToNumeric(v) ==
    IF v # NaN /\ AllDigits(v) THEN [ok |-> TRUE, val |-> DigitsVal(v)]
    ELSE IF v # NaN /\ v # <<>> /\ Head(v) = "-" /\ AllDigits(Tail(v))
    THEN [ok |-> TRUE, val |-> 0 - DigitsVal(Tail(v))]
    ELSE [ok |-> FALSE, val |-> 0]

\* lines 26-27: to_numeric, then fillna(0)
CleanAmount(v) == IF ToNumeric(v).ok THEN ToNumeric(v).val ELSE 0

\* CleanCategory without str.strip()
CleanCategoryUnstripped(v) ==
    LET s == AsStr(v)
    IN  IF s = <<"n", "a", "n">> \/ s = <<>> THEN Unknown ELSE s

\* lines 31-33: astype(str).str.strip(), then 'nan' and '' become 'Unknown'
CleanCategory(v) ==
    LET s == Strip(AsStr(v))
    IN  IF s = <<"n", "a", "n">> \/ s = <<>> THEN Unknown ELSE s

\* lines 37-44
city_mapping(c) ==
    CASE c = <<"B", "e", "n", "g", "a", "l", "u", "r", "u">> ->
            <<"B", "a", "n", "g", "a", "l", "o", "r", "e">>
      [] c = <<"K", "o", "r", "m", "a", "n", "g", "a", "l", "a">> ->
            <<"B", "a", "n", "g", "a", "l", "o", "r", "e">>
      [] c = <<"G", "u", "r", "g", "a", "o", "n">> ->
            <<"G", "u", "r", "u", "g", "r", "a", "m">>
      [] c = <<"N", "e", "w", " ", "D", "e", "l", "h", "i">> ->
            <<"D", "e", "l", "h", "i">>
      [] c = <<"N", "o", "i", "d", "a">> ->
            <<"D", "e", "l", "h", "i", " ", "N", "C", "R">>
      [] c = <<"F", "a", "r", "i", "d", "a", "b", "a", "d">> ->
            <<"D", "e", "l", "h", "i", " ", "N", "C", "R">>
      [] OTHER -> c

\* NormalizeCity without the title-casing of line 36
NormalizeCityUntitled(c) == city_mapping(c)

\* lines 36-45 on a cleaned city value: title-case, then the alias table
NormalizeCity(c) == city_mapping(Title(c))

\* lines 54-76: the table's (key, value) pairs
round_mapping ==
    <<
       <<<<"S", "e", "e", "d", " ", "R", "o", "u", "n", "d">>,
         <<"S", "e", "e", "d">>>>,
       <<<<"S", "e", "e", "d", " ", "F", "u", "n", "d", "i", "n", "g">>,
         <<"S", "e", "e", "d">>>>,
       <<<<"S", "e", "e", "d">>,
         <<"S", "e", "e", "d">>>>,
       <<<<"A", "n", "g", "e", "l", " ", "R", "o", "u", "n", "d">>,
         <<"A", "n", "g", "e", "l">>>>,
       <<<<"A", "n", "g", "e", "l">>,
         <<"A", "n", "g", "e", "l">>>>,
       <<<<"S", "e", "r", "i", "e", "s", " ", "A">>,
         <<"S", "e", "r", "i", "e", "s", " ", "A">>>>,
       <<<<"S", "e", "r", "i", "e", "s", " ", "B">>,
         <<"S", "e", "r", "i", "e", "s", " ", "B">>>>,
       <<<<"S", "e", "r", "i", "e", "s", " ", "C">>,
         <<"S", "e", "r", "i", "e", "s", " ", "C">>>>,
       <<<<"S", "e", "r", "i", "e", "s", " ", "D">>,
         <<"S", "e", "r", "i", "e", "s", " ", "D">>>>,
       <<<<"S", "e", "r", "i", "e", "s", " ", "E">>,
         <<"S", "e", "r", "i", "e", "s", " ", "E">>>>,
       <<<<"S", "e", "r", "i", "e", "s", " ", "F">>,
         <<"S", "e", "r", "i", "e", "s", " ", "F">>>>,
       <<<<"S", "e", "r", "i", "e", "s", " ", "G">>,
         <<"S", "e", "r", "i", "e", "s", " ", "G">>>>,
       <<<<"S", "e", "r", "i", "e", "s", " ", "H">>,
         <<"S", "e", "r", "i", "e", "s", " ", "H">>>>,
       <<<<"P", "r", "e", "-", "S", "e", "r", "i", "e", "s", " ", "A">>,
         <<"P", "r", "e", "-", "S", "e", "r", "i", "e", "s", " ", "A">>>>,
       <<<<"P", "r", "e", "-", "s", "e", "r", "i", "e", "s", " ", "A">>,
         <<"P", "r", "e", "-", "S", "e", "r", "i", "e", "s", " ", "A">>>>,
       <<<<"P", "r", "i", "v", "a", "t", "e", " ", "E", "q", "u", "i", "t", "y", " ", "R", "o", "u", "n", "d">>,
         <<"P", "r", "i", "v", "a", "t", "e", " ", "E", "q", "u", "i", "t", "y">>>>,
       <<<<"P", "r", "i", "v", "a", "t", "e", " ", "E", "q", "u", "i", "t", "y">>,
         <<"P", "r", "i", "v", "a", "t", "e", " ", "E", "q", "u", "i", "t", "y">>>>,
       <<<<"D", "e", "b", "t", " ", "F", "u", "n", "d", "i", "n", "g">>,
         <<"D", "e", "b", "t">>>>,
       <<<<"B", "r", "i", "d", "g", "e", " ", "R", "o", "u", "n", "d">>,
         <<"B", "r", "i", "d", "g", "e">>>>,
       <<<<"V", "e", "n", "t", "u", "r", "e", " ", "R", "o", "u", "n", "d">>,
         <<"V", "e", "n", "t", "u", "r", "e">>>>,
       <<<<"C", "o", "r", "p", "o", "r", "a", "t", "e", " ", "R", "o", "u", "n", "d">>,
         <<"C", "o", "r", "p", "o", "r", "a", "t", "e">>>>
    >>

\* NormalizeRound without the table
NormalizeRoundIdentity(r) == r

\* line 77: Series.replace(round_mapping): a value equal to a key becomes
\* that key's value, any other value is kept
NormalizeRound(r) ==
    IF \E i \in DOMAIN round_mapping : round_mapping[i][1] = r
    THEN round_mapping[CHOOSE i \in DOMAIN round_mapping : round_mapping[i][1] = r][2]
    ELSE r

(***************************************************************************)
(* process_data: the column labels of the raw input.                       *)
(***************************************************************************)
\* the columns process_data reads, in the order in which it reads them
\* (lines 18, 21, 26 and 30)
RequiredColumns ==
    <<<<"d", "a", "t", "e">>, <<"s", "t", "a", "r", "t", "u", "p">>, <<"a", "m", "o", "u", "n", "t">>, <<"v", "e", "r", "t", "i", "c", "a", "l">>,
      <<"s", "u", "b", "v", "e", "r", "t", "i", "c", "a", "l">>, <<"c", "i", "t", "y">>, <<"i", "n", "v", "e", "s", "t", "o", "r", "s">>, <<"r", "o", "u", "n", "d">>>>

\* line 15: df.columns.str.strip().str.lower()
NormalizeColumns(cols) == [i \in DOMAIN cols |-> Lower(Strip(cols[i]))]

\* ColumnError noticing only the columns that are absent
ColumnErrorAbsentOnly(cols) ==
    LET labels == NormalizeColumns(cols)
        absent == {k \in DOMAIN RequiredColumns :
                      \A i \in DOMAIN labels : labels[i] # RequiredColumns[k]}
    IN  IF absent = {} THEN "none" ELSE "KeyError"

\* lines 18-33: the error in which process_data ends, "none" when it reads
\* every column.  df[c] raises KeyError when no column is labelled c, and is
\* a DataFrame, not a Series, when several columns are: then pd.to_datetime
\* raises ValueError (date), pd.to_numeric raises TypeError (amount) and the
\* .str accessor raises AttributeError (the other columns).  The first
\* column the code cannot read decides.
ColumnError(cols) ==
    LET labels == NormalizeColumns(cols)
        count(k) == Cardinality({i \in DOMAIN labels : labels[i] = RequiredColumns[k]})
        bad == {k \in DOMAIN RequiredColumns : count(k) # 1}
        k == CHOOSE b \in bad : \A c \in bad : b <= c
    IN  IF bad = {} THEN "none"
        ELSE IF count(k) = 0 THEN "KeyError"
        ELSE IF k = 1 THEN "ValueError"
        ELSE IF k = 3 THEN "TypeError"
        ELSE "AttributeError"

(***************************************************************************)
(* process_data on the whole record set.                                   *)
(***************************************************************************)
\* lines 18-77: the cleaned columns of raw row i, before rows are removed
CleanRow(rows, i) ==
    LET r == rows[i]
        date == ToDatetime(r.date)
    IN  [idx |-> i,
         date |-> date,
         startup |-> CleanStartup(r.startup),
         amount |-> CleanAmount(r.amount),
         vertical |-> CleanCategory(r.vertical),
         subvertical |-> CleanCategory(r.subvertical),
         city |-> NormalizeCity(CleanCategory(r.city)),
         investors |-> CleanCategory(r.investors),
         round |-> NormalizeRound(CleanCategory(r.round)),
         year |-> YearOf(date),
         month |-> MonthOf(date),
         quarter |-> QuarterOf(date)]

\* Keeps without the dropna of line 80
KeepsStartupOnly(e) == e.startup # Unknown

\* lines 80-81: dropna(subset=['date', 'startup']) and startup != 'Unknown'.
\* The startup column holds strings after astype(str), never a missing value.
Keeps(e) == e.date # NaT /\ e.startup # Unknown

CleanRows(rows) == [i \in DOMAIN rows |-> CleanRow(rows, i)]

KeptRows(rows) == SelectSeq(CleanRows(rows), Keeps)

IsSortedDesc(s) == \A i \in 1..(Len(s) - 1) : s[i].date >= s[i + 1].date

\* the orderings of the positions 1..n
IndexPermutations(n) == Permutations(1..n)

\* line 84: sort_values('date', ascending=False) with the default
\* kind='quicksort', which pandas documents as not stable: every ordering
\* by date descending is an outcome, whatever the order of equal dates.
SortByDateDesc(s) ==
    {t \in {[i \in 1..Len(s) |-> s[p[i]]] : p \in IndexPermutations(Len(s))} :
        IsSortedDesc(t)}

\* process_data without the sort of line 84
process_data_unsorted(rows) == {KeptRows(rows)}

\* lines 10-86: the data frames process_data can return
process_data(rows) == SortByDateDesc(KeptRows(rows))

(***************************************************************************)
(* Series.str.contains(pat, case=False, na=False): pat is a regular        *)
(* expression (regex=True is the default), searched with re.IGNORECASE.    *)
(* The model's strings hold two of the characters that are special in a    *)
(* pattern: "." (any character) and "(" (opens a group; no ")" occurs in   *)
(* the model's alphabet, so a pattern holding "(" does not compile).       *)
(***************************************************************************)
\* re.compile(pat) succeeds
RegexCompiles(pat) == \A i \in DOMAIN pat : pat[i] # "("

\* one pattern character against one character of the text
RegexCharMatches(pc, c) == pc = "." \/ LowerChar(pc) = LowerChar(c)

\* re.search(pat, s, re.IGNORECASE) is not None, for a pattern that compiles
RegexSearch(pat, s) ==
    \E k \in 0..(Len(s) - Len(pat)) :
        \A j \in 1..Len(pat) : RegexCharMatches(pat[j], s[k + j])

\* the rows of a frame whose column col matches pat
StrContains(frame, col, pat) ==
    SelectSeq(frame, LAMBDA e : RegexSearch(pat, e[col]))

(***************************************************************************)
(* Column aggregates.                                                      *)
(***************************************************************************)
RECURSIVE SumAmount(_)
SumAmount(frame) ==
    IF frame = <<>> THEN 0 ELSE Head(frame).amount + SumAmount(Tail(frame))

MaxDate(frame) ==
    CHOOSE d \in {frame[i].date : i \in DOMAIN frame} :
        \A i \in DOMAIN frame : frame[i].date <= d

MinDate(frame) ==
    CHOOSE d \in {frame[i].date : i \in DOMAIN frame} :
        \A i \in DOMAIN frame : frame[i].date >= d

IsSortedAsc(s) == \A i \in 1..(Len(s) - 1) : s[i].date <= s[i + 1].date

\* SortByDateAsc leaving the rows in the order in which they come
SortByDateAscSkipped(s) == {s}

\* sort_values('date'), ascending, default kind='quicksort' (not stable)
SortByDateAsc(s) ==
    {t \in {[i \in 1..Len(s) |-> s[p[i]]] : p \in IndexPermutations(Len(s))} :
        IsSortedAsc(t)}

(***************************************************************************)
(* get_company_info                                                        *)
(***************************************************************************)
\* line 107: the projection on date, round, amount, investors
HistoryColumns(frame) ==
    [i \in DOMAIN frame |->
        [idx |-> frame[i].idx, date |-> frame[i].date, round |-> frame[i].round,
         amount |-> frame[i].amount, investors |-> frame[i].investors]]

\* lines 88-110: the outcomes of get_company_info(frame, company_name)
get_company_info(frame, company_name) ==
    IF ~RegexCompiles(company_name)
    THEN {[kind |-> "raise", error |-> "re.error"]}
    ELSE
      LET company_data == StrContains(frame, "startup", company_name)
      IN  IF company_data = <<>>
          THEN {[kind |-> "None"]}
          ELSE
            LET latest_entry == company_data[1]
            IN  {[kind |-> "info",
                  name |-> latest_entry.startup,
                  industry |-> latest_entry.vertical,
                  subindustry |-> latest_entry.subvertical,
                  location |-> latest_entry.city,
                  total_funding |-> SumAmount(company_data),
                  funding_rounds |-> Len(company_data),
                  last_funding_date |-> MaxDate(company_data),
                  first_funding_date |-> MinDate(company_data),
                  funding_history |-> h] :
                    h \in SortByDateAsc(HistoryColumns(company_data))}

(***************************************************************************)
(* find_similar_companies                                                  *)
(***************************************************************************)
\* a == b on two cells: a missing value equals nothing, itself included
CellEq(a, b) == a # NaN /\ b # NaN /\ a = b

\* lines 173-177: the event shares vertical, subvertical or city with the
\* target's first matching event
SharesAttribute(e, target) ==
    \/ CellEq(e.vertical, target.vertical)
    \/ CellEq(e.subvertical, target.subvertical)
    \/ CellEq(e.city, target.city)

\* the aggregate 'first': the first value of the column that is not missing
FirstValue(frame, col) ==
    LET present == SelectSeq(frame, LAMBDA e : e[col] # NaN)
    IN  IF present = <<>> THEN NaN ELSE present[1][col]

\* lines 183-189: groupby('startup').agg(...).reset_index(), one row per
\* distinct startup of the candidate events
similar_summary(similar) ==
    LET group(n) == SelectSeq(similar, LAMBDA e : e.startup = n)
        row(n, g) ==
            [startup |-> n,
             amount |-> SumAmount(g),
             vertical |-> FirstValue(g, "vertical"),
             subvertical |-> FirstValue(g, "subvertical"),
             city |-> FirstValue(g, "city"),
             date |-> MaxDate(g)]
    IN  {row(n, group(n)) : n \in {similar[i].startup : i \in DOMAIN similar}}

\* the orderings of a set of rows by amount ascending, cut to limit rows
BottomByAmount(rows, limit) ==
    LET n == Cardinality(rows)
        orders == {s \in [1..n -> rows] :
                      /\ \A i, j \in 1..n : s[i] = s[j] => i = j
                      /\ \A i \in 1..(n - 1) : s[i].amount <= s[i + 1].amount}
    IN  {SubSeq(s, 1, IF limit < n THEN limit ELSE n) : s \in orders}

\* line 191: sort_values('amount', ascending=False).head(limit): the
\* orderings by amount descending (rows of equal amount in any order, the
\* default sort is not stable), cut to limit rows
TopByAmount(rows, limit) ==
    LET n == Cardinality(rows)
        orders == {s \in [1..n -> rows] :
                      /\ \A i, j \in 1..n : s[i] = s[j] => i = j
                      /\ \A i \in 1..(n - 1) : s[i].amount >= s[i + 1].amount}
    IN  {SubSeq(s, 1, IF limit < n THEN limit ELSE n) : s \in orders}

\* find_similar_companies summing over every event of a startup that has an
\* event in the candidate pool
find_similar_companies_whole_startup(frame, company_name, limit) ==
    IF ~RegexCompiles(company_name)
    THEN {[kind |-> "raise", error |-> "re.error"]}
    ELSE
      LET company_data == StrContains(frame, "startup", company_name)
      IN  IF company_data = <<>>
          THEN {[kind |-> "list", matched |-> FALSE, pool |-> <<>>, list |-> <<>>]}
          ELSE
            LET target == company_data[1]
                shared == SelectSeq(frame, LAMBDA e :
                              \E j \in DOMAIN frame :
                                  /\ frame[j].startup = e.startup
                                  /\ SharesAttribute(frame[j], target))
                similar == SelectSeq(shared,
                               LAMBDA e : ~RegexSearch(company_name, e.startup))
            IN  {[kind |-> "list", matched |-> TRUE, pool |-> similar, list |-> l] :
                    l \in TopByAmount(similar_summary(similar), limit)}

\* lines 160-193: the outcomes of find_similar_companies(frame, company_name,
\* limit).  target is the first matching event, pool the frame `similar`
\* after the exclusion of line 180, list the returned records.
find_similar_companies(frame, company_name, limit) ==
    IF ~RegexCompiles(company_name)
    THEN {[kind |-> "raise", error |-> "re.error"]}
    ELSE
      LET company_data == StrContains(frame, "startup", company_name)
      IN  IF company_data = <<>>
          THEN {[kind |-> "list", matched |-> FALSE, pool |-> <<>>, list |-> <<>>]}
          ELSE
            LET target == company_data[1]
                shared == SelectSeq(frame, LAMBDA e : SharesAttribute(e, target))
                similar == SelectSeq(shared,
                               LAMBDA e : ~RegexSearch(company_name, e.startup))
            IN  {[kind |-> "list", matched |-> TRUE, pool |-> similar, list |-> l] :
                    l \in TopByAmount(similar_summary(similar), limit)}

(***************************************************************************)
(* The expansion of the investors column (lines 115-132 and 198-211).      *)
(***************************************************************************)
RECURSIVE Split(_, _)
\* str.split(sep): the pieces between the separators, empty pieces included
Split(s, sep) ==
    IF \A i \in DOMAIN s : s[i] # sep THEN <<s>>
    ELSE LET k == CHOOSE i \in DOMAIN s :
                      s[i] = sep /\ \A j \in 1..(i - 1) : s[j] # sep
         IN  <<SubSeq(s, 1, k - 1)>> \o Split(SubSeq(s, k + 1, Len(s)), sep)

\* KeptInvestors comparing with 'Unknown' without lower()
KeptInvestorsCaseSensitive(e) ==
    LET investors == Split(AsStr(e.investors), ",")
    IN  SelectSeq([i \in DOMAIN investors |-> Strip(investors[i])],
                  LAMBDA t : t # <<>> /\ t # Unknown)

\* lines 119-120: the stripped tokens that are kept
KeptInvestors(e) ==
    LET investors == Split(AsStr(e.investors), ",")
    IN  SelectSeq([i \in DOMAIN investors |-> Strip(investors[i])],
                  LAMBDA t : t # <<>> /\ Lower(t) # <<"u", "n", "k", "n", "o", "w", "n">>)

\* EventStakes dividing the event's amount among its investors
EventStakesSharingAmount(e) ==
    LET kept == KeptInvestors(e)
    IN  [i \in DOMAIN kept |->
            [investor |-> kept[i],
             startup |-> e.startup,
             date |-> e.date,
             amount |-> e.amount \div Len(kept),
             round |-> e.round,
             vertical |-> e.vertical,
             city |-> e.city,
             year |-> e.year]]

\* lines 121-130: the stakes of one event
EventStakes(e) ==
    LET kept == KeptInvestors(e)
    IN  [i \in DOMAIN kept |->
            [investor |-> kept[i],
             startup |-> e.startup,
             date |-> e.date,
             amount |-> e.amount,
             round |-> e.round,
             vertical |-> e.vertical,
             city |-> e.city,
             year |-> e.year]]

RECURSIVE ExpandInvestors(_)
\* lines 115-132: investor_data, one record per (event, investor), in order
ExpandInvestors(frame) ==
    IF frame = <<>> THEN <<>>
    ELSE EventStakes(Head(frame)) \o ExpandInvestors(Tail(frame))

(***************************************************************************)
(* get_investor_info                                                       *)
\* the number of rows kept by head(10) and nlargest(10, 'amount')
TopRows == 10

RECURSIVE RemoveFirst(_, _)
\* the frame without the first of its rows equal to x
RemoveFirst(frame, x) ==
    IF frame = <<>> THEN <<>>
    ELSE IF Head(frame) = x THEN Tail(frame)
    ELSE <<Head(frame)>> \o RemoveFirst(Tail(frame), x)

RECURSIVE SortByDateDescHead(_, _)
\* line 146: sort_values('date', ascending=False).head(n).  The default sort
\* is not stable, so rows of equal date come in any order: every outcome
\* starts with one of the rows of the latest date.
SortByDateDescHead(frame, n) ==
    IF frame = <<>> \/ n = 0 THEN {<<>>}
    ELSE LET latest == MaxDate(frame)
             firsts == {frame[i] : i \in {k \in DOMAIN frame : frame[k].date = latest}}
         IN  UNION {{<<x>> \o t : t \in SortByDateDescHead(RemoveFirst(frame, x), n - 1)} :
                       x \in firsts}

RECURSIVE nlargest(_, _)
\* line 147: nlargest(n, 'amount') with keep='first': the n rows of largest
\* amount by amount descending, rows of equal amount in their order in the
\* frame
nlargest(frame, n) ==
    IF frame = <<>> \/ n = 0 THEN <<>>
    ELSE LET k == CHOOSE i \in DOMAIN frame :
                      /\ \A j \in DOMAIN frame : frame[j].amount <= frame[i].amount
                      /\ \A j \in 1..(i - 1) : frame[j].amount < frame[i].amount
         IN  <<frame[k]>>
                 \o nlargest(SubSeq(frame, 1, k - 1) \o SubSeq(frame, k + 1, Len(frame)),
                             n - 1)

\* value_counts counting every distinct value once
value_counts_once(frame, col) ==
    LET vals == {frame[i][col] : i \in DOMAIN frame} \ {NaN}
        first(v) == CHOOSE i \in DOMAIN frame :
                        frame[i][col] = v /\ \A j \in 1..(i - 1) : frame[j][col] # v
        rank(v) == Cardinality({w \in vals : first(w) < first(v)})
    IN  [i \in 1..Cardinality(vals) |->
            LET v == CHOOSE w \in vals : rank(w) = i - 1
            IN  [value |-> v, count |-> 1]]

\* lines 148-150: frame[col].value_counts(): one entry per distinct value
\* that is not missing, with the number of rows holding it, by count
\* descending, values of equal count in their order of first appearance
value_counts(frame, col) ==
    LET vals == {frame[i][col] : i \in DOMAIN frame} \ {NaN}
        count(v) == Cardinality({i \in DOMAIN frame : frame[i][col] = v})
        first(v) == CHOOSE i \in DOMAIN frame :
                        frame[i][col] = v /\ \A j \in 1..(i - 1) : frame[j][col] # v
        rank(v) == Cardinality({w \in vals :
                       count(w) > count(v) \/ (count(w) = count(v) /\ first(w) < first(v))})
    IN  [i \in 1..Cardinality(vals) |->
            LET v == CHOOSE w \in vals : rank(w) = i - 1
            IN  [value |-> v, count |-> count(v)]]

\* lines 151-154: groupby('year').agg({'startup': 'count', 'amount': 'sum'})
\* .reset_index(): one row per year, by year ascending, with the number of
\* rows whose startup is not missing and the sum of their amounts
yearly_investments(frame) ==
    LET years == {frame[i].year : i \in DOMAIN frame}
        group(y) == SelectSeq(frame, LAMBDA s : s.year = y)
        rank(y) == Cardinality({z \in years : z < y})
    IN  [i \in 1..Cardinality(years) |->
            LET y == CHOOSE z \in years : rank(z) = i - 1
            IN  [year |-> y,
                 startup |-> Len(SelectSeq(group(y), LAMBDA s : s.startup # NaN)),
                 amount |-> SumAmount(group(y))]]

(***************************************************************************)
\* lines 112-158: the outcomes of get_investor_info(frame, investor_name).
\* pd.DataFrame([]) has no columns, so investor_df['investor'] raises
\* KeyError when no stake exists.  avg_investment, a mean, is kept as the
\* pair (sum, count).
get_investor_info(frame, investor_name) ==
    LET investor_df == ExpandInvestors(frame)
    IN  IF investor_df = <<>>
        THEN {[kind |-> "raise", error |-> "KeyError"]}
        ELSE IF ~RegexCompiles(investor_name)
        THEN {[kind |-> "raise", error |-> "re.error"]}
        ELSE
          LET investor_investments ==
                  StrContains(investor_df, "investor", investor_name)
          IN  IF investor_investments = <<>>
              THEN {[kind |-> "None"]}
              ELSE {[kind |-> "info",
                     name |-> investor_name,
                     total_investments |-> Len(investor_investments),
                     total_amount_invested |-> SumAmount(investor_investments),
                     avg_investment |-> <<SumAmount(investor_investments),
                                          Len(investor_investments)>>,
                     recent_investments |-> recent,
                     biggest_investments |-> nlargest(investor_investments, TopRows),
                     sectors |-> value_counts(investor_investments, "vertical"),
                     stages |-> value_counts(investor_investments, "round"),
                     cities |-> value_counts(investor_investments, "city"),
                     yearly_investments |-> yearly_investments(investor_investments)] :
                       recent \in SortByDateDescHead(investor_investments, TopRows)}

(***************************************************************************)
(* find_similar_investors                                                  *)
(***************************************************************************)
\* the number of top values kept by value_counts().head(3)
TopN == 3

\* set(frame[col].value_counts().head(3).index): value_counts leaves out the
\* missing values, counts each distinct value and orders them by count
\* descending, values of equal count in their order of first appearance.
TopValues(frame, col) ==
    LET vals == {frame[i][col] : i \in DOMAIN frame} \ {NaN}
        count(v) == Cardinality({i \in DOMAIN frame : frame[i][col] = v})
        first(v) == CHOOSE i \in DOMAIN frame :
                        frame[i][col] = v /\ \A j \in 1..(i - 1) : frame[j][col] # v
        before(w, v) ==
            count(w) > count(v) \/ (count(w) = count(v) /\ first(w) < first(v))
    IN  {v \in vals : Cardinality({w \in vals : before(w, v)}) < TopN}

\* all_investors taking every investor's top values from the whole frame
\* instead of the investor's own group
all_investors_ungrouped(investor_df) ==
    LET group(n) == SelectSeq(investor_df, LAMBDA s : s.investor = n)
        row(n, stakes) ==
            [investor |-> n,
             top_sectors |-> TopValues(investor_df, "vertical"),
             top_stages |-> TopValues(investor_df, "round"),
             total_amount |-> SumAmount(stakes),
             investment_count |-> Len(stakes)]
    IN  {row(n, group(n)) : n \in {investor_df[i].investor : i \in DOMAIN investor_df}}

\* lines 225-231: one row per distinct investor name
all_investors(investor_df) ==
    LET group(n) == SelectSeq(investor_df, LAMBDA s : s.investor = n)
        row(n, stakes) ==
            [investor |-> n,
             top_sectors |-> TopValues(stakes, "vertical"),
             top_stages |-> TopValues(stakes, "round"),
             total_amount |-> SumAmount(stakes),
             investment_count |-> Len(stakes)]
    IN  {row(n, group(n)) : n \in {investor_df[i].investor : i \in DOMAIN investor_df}}

\* lines 235-236: the two divisions are defined
OverlapDefined(target_sectors, target_stages, row) ==
    /\ (target_sectors \cup row.top_sectors) # {}
    /\ (target_stages \cup row.top_stages) # {}

\* similarity_score dividing by the size of the target's sets instead of
\* the size of the unions
similarity_score_by_target(target_sectors, target_stages, row) ==
    LET si == Cardinality(target_sectors \cap row.top_sectors)
        su == Cardinality(target_sectors)
        ti == Cardinality(target_stages \cap row.top_stages)
        tu == Cardinality(target_stages)
    IN  <<si * tu + ti * su, 2 * su * tu>>

\* similarity_score adding the two overlaps without halving the sum
similarity_score_sum(target_sectors, target_stages, row) ==
    LET si == Cardinality(target_sectors \cap row.top_sectors)
        su == Cardinality(target_sectors \cup row.top_sectors)
        ti == Cardinality(target_stages \cap row.top_stages)
        tu == Cardinality(target_stages \cup row.top_stages)
    IN  <<si * tu + ti * su, su * tu>>

\* lines 234-237: (sector_overlap + stage_overlap) / 2 as the fraction
\* <<numerator, denominator>>, where sector_overlap = si / su and
\* stage_overlap = ti / tu
similarity_score(target_sectors, target_stages, row) ==
    LET si == Cardinality(target_sectors \cap row.top_sectors)
        su == Cardinality(target_sectors \cup row.top_sectors)
        ti == Cardinality(target_stages \cap row.top_stages)
        tu == Cardinality(target_stages \cup row.top_stages)
    IN  <<si * tu + ti * su, 2 * su * tu>>

\* a >= b for two fractions with positive denominators
FracGeq(a, b) == a[1] * b[2] >= b[1] * a[2]

\* line 246: sort_values('similarity', ascending=False).head(limit) of a set
\* of rows: the orderings by similarity descending, cut to limit rows
TopBySimilarity(rows, limit) ==
    LET n == Cardinality(rows)
        orders == {s \in [1..n -> rows] :
                      /\ \A i, j \in 1..n : s[i] = s[j] => i = j
                      /\ \A i \in 1..(n - 1) :
                             FracGeq(s[i].similarity, s[i + 1].similarity)}
    IN  {SubSeq(s, 1, IF limit < n THEN limit ELSE n) : s \in orders}

\* lines 195-248: the outcomes of find_similar_investors(frame, investor_name,
\* limit).  scored is all_investors with its similarity column (line 239),
\* before the target is excluded; list is the returned list.
find_similar_investors(frame, investor_name, limit) ==
    LET investor_df == ExpandInvestors(frame)
    IN  IF investor_df = <<>>
        THEN {[kind |-> "raise", error |-> "KeyError"]}
        ELSE IF ~RegexCompiles(investor_name)
        THEN {[kind |-> "raise", error |-> "re.error"]}
        ELSE
          LET target_investments ==
                  StrContains(investor_df, "investor", investor_name)
              target_sectors == TopValues(target_investments, "vertical")
              target_stages == TopValues(target_investments, "round")
              candidates == all_investors(investor_df)
          IN  IF target_investments = <<>>
              THEN {[kind |-> "list", scored |-> {}, list |-> <<>>]}
              ELSE IF \E row \in candidates :
                          ~OverlapDefined(target_sectors, target_stages, row)
              THEN {[kind |-> "raise", error |-> "ZeroDivisionError"]}
              ELSE
                LET scored ==
                        {[investor |-> row.investor,
                          top_sectors |-> row.top_sectors,
                          top_stages |-> row.top_stages,
                          total_amount |-> row.total_amount,
                          investment_count |-> row.investment_count,
                          similarity |->
                              similarity_score(target_sectors, target_stages, row)] :
                            row \in candidates}
                    similar_investors ==
                        {row \in scored : ~RegexSearch(investor_name, row.investor)}
                IN  {[kind |-> "list", scored |-> scored,
                      list |-> [i \in DOMAIN l |->
                                   [investor |-> l[i].investor,
                                    total_amount |-> l[i].total_amount,
                                    investment_count |-> l[i].investment_count,
                                    similarity |-> l[i].similarity]]] :
                        l \in TopBySimilarity(similar_investors, limit)}

(***************************************************************************)
(* The raw record sets the pipeline is run on.                             *)
(***************************************************************************)
RawRow(date, startup, amount, vertical, subvertical, city, investors, round) ==
    [date |-> date, startup |-> startup, amount |-> amount,
     vertical |-> vertical, subvertical |-> subvertical, city |-> city,
     investors |-> investors, round |-> round]

\* rows that differ in date, startup, amount and city
NormRow(date, startup, amount, city) ==
    RawRow(date, startup, amount, <<"F", "i", "n", "t", "e", "c", "h">>, <<"P", "a", "y", "m", "e", "n", "t", "s">>, city,
           <<"A", "c", "c", "e", "l">>, <<"S", "e", "e", "d", " ", "R", "o", "u", "n", "d">>)

NormRows ==
    { NormRow(<<2020, 1, 15>>, <<"O", "l", "a">>, <<"5">>, <<"N", "o", "i", "d", "a">>),
      NormRow(<<2019, 6, 30>>, <<"O", "l", "a">>, <<"-", "3">>, <<"b", "e", "n", "g", "a", "l", "u", "r", "u">>),
      NormRow(<<2020, 1, 15>>, <<"O", "l", "x">>, <<"1", "2">>, <<"P", "u", "n", "e">>),
      NormRow(<<2015, 13, 1>>, <<"O", "l", "a">>, <<"5">>, <<"P", "u", "n", "e">>),
      NormRow(<<>>, <<"O", "l", "x">>, <<"5">>, <<"P", "u", "n", "e">>),
      NormRow(<<2019, 6, 30>>, <<"U", "n", "k", "n", "o", "w", "n">>, <<"5">>, <<"P", "u", "n", "e">>),
      NormRow(<<2020, 1, 15>>, <<" ", "'", "U", "n", "k", "n", "o", "w", "n", "'", " ">>, <<"x">>, <<"P", "u", "n", "e">>),
      NormRow(<<2019, 6, 30>>, NaN, NaN, NaN),
      NormRow(<<2020, 1, 15>>, <<"h", "t", "t", "p", ":", "/", "/", "x", ".", "i", "n", " ", "O", "l", "a">>, <<"x">>, <<"d", "e", "l", "h", "i", " ", "N", "C", "R">>),
      NormRow(<<2019, 6, 30>>, <<"O", ".", "a">>, <<"1", "2">>, <<"N", "e", "w", " ", "D", "e", "l", "h", "i">>),
      NormRow(<<2021, 2, 29>>, <<"O", "l", "x">>, <<"-", "3">>, <<"N", "o", "i", "d", "a">>),
      NormRow(<<2020, 2, 29>>, <<"O", "l", "(", "a">>, NaN, <<" ", "p", "u", "n", "e", " ">>) }

\* the sequences of 1..n rows drawn from a set of rows
RowSeqs(rows, n) == UNION {[1..k -> rows] : k \in 1..n}

CompanyQueries == {<<"o", "l", "a">>, <<"O", ".">>, <<"l", "(">>, <<"z", "z">>}

InvestorQueries == {<<"a", "c", "c", "e", "l">>, <<"A", ".">>, <<"(">>, <<"z", "z">>}

\* lines 160 and 195: limit=5
DefaultLimit == 5

\* limit: the default, and a limit small enough to cut a list
Limits == {1, DefaultLimit}

\* rows that differ in date, startup, amount and investors
InvestorRow(date, startup, amount, investors) ==
    RawRow(date, startup, amount, <<"F", "i", "n", "t", "e", "c", "h">>, <<"P", "a", "y", "m", "e", "n", "t", "s">>, <<"P", "u", "n", "e">>,
           investors, <<"S", "e", "e", "d">>)

InvestorRows ==
    { InvestorRow(<<2020, 1, 15>>, <<"O", "l", "a">>, <<"5">>, <<"A", "c", "c", "e", "l">>),
      InvestorRow(<<2019, 6, 30>>, <<"O", "l", "x">>, <<"1", "2">>, <<"a", "c", "c", "e", "l", ",", " ", "S", "e", "q", "u", "o", "i", "a">>),
      InvestorRow(<<2020, 1, 15>>, <<"O", "l", "a">>, <<"7">>, <<"S", "e", "q", " ", "C", "a", "p", "i", "t", "a", "l", ",", " ", "A", "c", "c", "e", "l", ",", " ">>),
      InvestorRow(<<2019, 6, 30>>, <<"O", "l", "x">>, <<"3">>, <<"U", "n", "k", "n", "o", "w", "n">>),
      InvestorRow(<<2021, 3, 1>>, <<"O", "l", "a">>, <<"2">>, <<" ", "u", "n", "k", "n", "o", "w", "n", " ", ",", "A", "C", "C", "E", "L", ",", ",">>),
      InvestorRow(<<2018, 4, 2>>, <<"O", "l", "a">>, <<"4">>, <<"A", "c", "c", "e", "l", ",", "A", "c", "c", "e", "l">>),
      InvestorRow(<<2021, 3, 1>>, <<"O", "l", "x">>, <<"9">>, NaN),
      InvestorRow(<<2018, 4, 2>>, <<"O", "l", "x">>, <<"6">>, <<"T", "i", "g", "e", "r", " ", "(", "G", "l", "o", "b", "a", "l", ",", "A", ".", "B">>) }

\* rows that differ in investors, vertical and round
SimilarityRows ==
    { [investors |-> <<"A", "c", "c", "e", "l">>, vertical |-> <<"F", "i", "n", "t", "e", "c", "h">>, round |-> <<"S", "e", "e", "d", " ", "R", "o", "u", "n", "d">>],
      [investors |-> <<"A", "c", "c", "e", "l">>, vertical |-> <<"H", "e", "a", "l", "t", "h">>, round |-> <<"S", "e", "r", "i", "e", "s", " ", "A">>],
      [investors |-> <<"A", "c", "c", "e", "l">>, vertical |-> <<"R", "e", "t", "a", "i", "l">>, round |-> <<"S", "e", "r", "i", "e", "s", " ", "B">>],
      [investors |-> <<"S", "e", "q", "u", "o", "i", "a", ",", " ", "A", "c", "c", "e", "l">>, vertical |-> <<"E", "d", "t", "e", "c", "h">>, round |-> <<"A", "n", "g", "e", "l", " ", "R", "o", "u", "n", "d">>],
      [investors |-> <<"S", "e", "q", "u", "o", "i", "a">>, vertical |-> <<"F", "i", "n", "t", "e", "c", "h">>, round |-> <<"S", "e", "e", "d">>] }

\* the record sets of 1..n such rows, the k-th row dated k days before the
\* end of January 2020, so that no two rows share a date
SimilarityRaws(n) ==
    {[i \in DOMAIN s |->
        RawRow(<<2020, 1, 31 - i>>, <<"O", "l", "a">>, <<"5">>, s[i].vertical,
               <<"P", "a", "y", "m", "e", "n", "t", "s">>, <<"P", "u", "n", "e">>, s[i].investors, s[i].round)] :
        s \in RowSeqs(SimilarityRows, n)}

SimilarityQueries == {<<"A", "c", "c", "e", "l">>, <<"S", "e", "q", "u", "o", "i", "a">>, <<"e">>}

\* rows that differ in date, startup, amount, vertical, subvertical and city
CompanyRow(date, startup, amount, vertical, subvertical, city) ==
    RawRow(date, startup, amount, vertical, subvertical, city, <<"A", "c", "c", "e", "l">>, <<"S", "e", "e", "d">>)

CompanyRows ==
    { CompanyRow(<<2020, 1, 15>>, <<"O", "l", "a">>, <<"5">>, <<"F", "i", "n", "t", "e", "c", "h">>, <<"P", "a", "y", "m", "e", "n", "t", "s">>, <<"P", "u", "n", "e">>),
      CompanyRow(<<2019, 6, 30>>, <<"O", "l", "a">>, <<"7">>, <<"H", "e", "a", "l", "t", "h">>, <<"P", "h", "a", "r", "m", "a">>, <<"G", "o", "a">>),
      CompanyRow(<<2020, 1, 14>>, <<"Z", "e", "d">>, <<"1", "2">>, <<"F", "i", "n", "t", "e", "c", "h">>, <<"P", "h", "a", "r", "m", "a">>, <<"G", "o", "a">>),
      CompanyRow(<<2019, 6, 29>>, <<"Z", "e", "d">>, <<"4">>, <<"H", "e", "a", "l", "t", "h">>, <<"A", "p", "p", "a", "r", "e", "l">>, <<"G", "o", "a">>),
      CompanyRow(<<2018, 4, 2>>, <<"K", "i", "a">>, <<"1", "2">>, <<"H", "e", "a", "l", "t", "h">>, <<"P", "h", "a", "r", "m", "a">>, <<"P", "u", "n", "e">>),
      CompanyRow(<<2019, 6, 28>>, <<"O", ".", "a">>, <<"2">>, <<"R", "e", "t", "a", "i", "l">>, <<"A", "p", "p", "a", "r", "e", "l">>, <<"D", "e", "l", "h", "i">>) }

\* the header of a raw input: the required columns but those of `absent`,
\* the first one written as in a hand-made sheet (" Date " for "date"), then
\* a column of remarks, then a second column for each column of `doubled`
HeaderOf(absent, doubled) ==
    LET present == SelectSeq(RequiredColumns, LAMBDA c : c \notin absent)
        written == [i \in DOMAIN present |->
                       IF i = 1 THEN <<" ">> \o Title(present[i]) \o <<" ">>
                       ELSE present[i]]
        again == SelectSeq(RequiredColumns, LAMBDA c : c \in doubled)
    IN  written \o <<<<"r", "e", "m", "a", "r", "k", "s">>>> \o [i \in DOMAIN again |-> Title(again[i])]

\* headers that lack at most two of the required columns and repeat at most
\* one of date, startup, amount, city
Headers ==
    {HeaderOf(absent, doubled) :
        absent \in {a \in SUBSET {RequiredColumns[k] : k \in DOMAIN RequiredColumns} :
                       Cardinality(a) <= 1
                           \/ a = {<<"d", "a", "t", "e">>, <<"s", "t", "a", "r", "t", "u", "p">>}
                           \/ a = {<<"a", "m", "o", "u", "n", "t">>, <<"r", "o", "u", "n", "d">>}},
        doubled \in {{}, {<<"d", "a", "t", "e">>}, {<<"s", "t", "a", "r", "t", "u", "p">>}, {<<"a", "m", "o", "u", "n", "t">>}, {<<"c", "i", "t", "y">>}}}

\* rows that differ in date, amount and the five categorical columns, which
\* all hold the same text
FieldRow(date, amount, category) ==
    RawRow(date, <<"O", "l", "a">>, amount, category, category, category, category, category)

FieldRows ==
    { FieldRow(<<2020, 1, 15>>, <<"1", "2">>, <<"N", "o", "i", "d", "a">>),
      FieldRow(<<2020, 1, 15>>, NaN, NaN),
      FieldRow(<<2020, 1, 15>>, <<"x">>, <<>>),
      FieldRow(<<2020, 1, 15>>, <<>>, <<" ", " ", " ">>),
      FieldRow(<<2019, 6, 30>>, <<"-", "3">>, <<"n", "a", "n">>),
      FieldRow(<<2019, 6, 30>>, <<"1", "x">>, <<" ", "n", "a", "n", " ">>),
      FieldRow(<<2019, 6, 30>>, <<"7">>, <<"S", "e", "e", "d", " ", "R", "o", "u", "n", "d">>),
      FieldRow(<<>>, <<"1", "2">>, <<"S", "e", "e", "d", " ", "R", "o", "u", "n", "d">>),
      FieldRow(<<2021, 2, 29>>, <<"x">>, NaN),
      FieldRow(<<2020, 13, 1>>, <<>>, <<"n", "a", "n">>) }

\* rows that differ in city and round
LabelRow(city, round) ==
    RawRow(<<2020, 1, 15>>, <<"O", "l", "a">>, <<"5">>, <<"F", "i", "n", "t", "e", "c", "h">>, <<"P", "a", "y", "m", "e", "n", "t", "s">>, city, <<"A", "c", "c", "e", "l">>, round)

LabelRows ==
    { LabelRow(<<"B", "e", "n", "g", "a", "l", "u", "r", "u">>, <<"S", "e", "e", "d", " ", "R", "o", "u", "n", "d">>),
      LabelRow(<<"b", "e", "n", "g", "a", "l", "u", "r", "u">>, <<"S", "e", "e", "d", " ", "F", "u", "n", "d", "i", "n", "g">>),
      LabelRow(<<"K", "O", "R", "M", "A", "N", "G", "A", "L", "A">>, <<"S", "e", "e", "d">>),
      LabelRow(<<"G", "u", "r", "g", "a", "o", "n">>, <<"A", "n", "g", "e", "l", " ", "R", "o", "u", "n", "d">>),
      LabelRow(<<"N", "e", "w", " ", "D", "e", "l", "h", "i">>, <<"P", "r", "e", "-", "s", "e", "r", "i", "e", "s", " ", "A">>),
      LabelRow(<<"n", "e", "w", " ", "d", "e", "l", "h", "i">>, <<"P", "r", "e", "-", "S", "e", "r", "i", "e", "s", " ", "A">>),
      LabelRow(<<"n", "o", "i", "d", "a">>, <<"D", "e", "b", "t", " ", "F", "u", "n", "d", "i", "n", "g">>),
      LabelRow(<<"N", "O", "I", "D", "A">>, <<" ", "S", "e", "r", "i", "e", "s", " ", "A", " ">>),
      LabelRow(<<" ", "F", "a", "r", "i", "d", "a", "b", "a", "d", " ">>, <<"P", "r", "i", "v", "a", "t", "e", " ", "E", "q", "u", "i", "t", "y", " ", "R", "o", "u", "n", "d">>),
      LabelRow(<<"P", "u", "n", "e">>, <<"s", "e", "e", "d", " ", "r", "o", "u", "n", "d">>),
      LabelRow(<<"d", "e", "l", "h", "i", " ", "N", "C", "R">>, <<"B", "r", "i", "d", "g", "e", " ", "R", "o", "u", "n", "d">>),
      LabelRow(<<"N", "a", "v", "i", " ", "M", "u", "m", "b", "a", "i">>, <<"V", "e", "n", "t", "u", "r", "e", " ", "R", "o", "u", "n", "d">>),
      LabelRow(<<"D", "e", "l", "h", "i">>, <<"C", "o", "r", "p", "o", "r", "a", "t", "e", " ", "R", "o", "u", "n", "d">>),
      LabelRow(<<"G", "u", "r", "u", "g", "r", "a", "m">>, <<"C", "r", "o", "w", "d", "f", "u", "n", "d", "i", "n", "g">>),
      LabelRow(NaN, NaN) }

\* rows that differ in startup and investors
PickerRow(startup, investors) ==
    RawRow(<<2020, 1, 15>>, startup, <<"5">>, <<"F", "i", "n", "t", "e", "c", "h">>, <<"P", "a", "y", "m", "e", "n", "t", "s">>, <<"P", "u", "n", "e">>, investors, <<"S", "e", "e", "d">>)

PickerRows ==
    { PickerRow(<<"O", "l", "a">>, <<"A", "c", "c", "e", "l">>),
      PickerRow(<<"O", "l", "a", "c", "a", "b", "s">>, <<"a", "c", "c", "e", "l", ",", " ", "S", "e", "q", "u", "o", "i", "a">>),
      PickerRow(<<"O", "l", "(", "a">>, <<"A", "c", "c", "e", "l", " ", "P", "a", "r", "t", "n", "e", "r", "s">>),
      PickerRow(<<"O", ".", "a">>, <<"U", "n", "k", "n", "o", "w", "n">>),
      PickerRow(<<"O", "l", "x">>, <<"T", "i", "g", "e", "r", " ", "(", "G", "l", "o", "b", "a", "l", ",", "A", ".", "B">>),
      PickerRow(<<"O", "l", "a">>, NaN) }

\* rows with six investor names each, and rows with one or two, that differ
\* in date, amount, vertical, city and round
ProfileRows ==
    { RawRow(<<2020, 1, 15>>, <<"O", "l", "a">>, <<"5">>, <<"F", "i", "n", "t", "e", "c", "h">>, <<"P", "a", "y", "m", "e", "n", "t", "s">>, <<"P", "u", "n", "e">>, <<"A", "c", "c", "e", "l", ",", "A", "c", "c", "e", "l", ",", "A", "c", "c", "e", "l", ",", "A", "c", "c", "e", "l", ",", "A", "c", "c", "e", "l", ",", "A", "c", "c", "e", "l">>, <<"S", "e", "e", "d">>),
      RawRow(<<2019, 6, 30>>, <<"Z", "e", "d">>, <<"1", "2">>, <<"H", "e", "a", "l", "t", "h">>, <<"P", "h", "a", "r", "m", "a">>, <<"G", "o", "a">>, <<"A", "c", "c", "e", "l", ",", "A", "c", "c", "e", "l", ",", "A", "c", "c", "e", "l", ",", "A", "c", "c", "e", "l", ",", "A", "c", "c", "e", "l", ",", "A", "c", "c", "e", "l", " ", "B">>, <<"S", "e", "r", "i", "e", "s", " ", "A">>),
      RawRow(<<2020, 1, 15>>, <<"K", "i", "a">>, <<"7">>, <<"F", "i", "n", "t", "e", "c", "h">>, <<"P", "h", "a", "r", "m", "a">>, <<"G", "o", "a">>, <<"A", "c", "c", "e", "l", ",", "T", "i", "g", "e", "r">>, <<"S", "e", "e", "d">>),
      RawRow(<<2018, 4, 2>>, <<"O", "l", "a">>, NaN, NaN, NaN, NaN, <<"a", "c", "c", "e", "l", " ", "x">>, NaN) }

\* company_analysis.py lines 24-25 and 41: the names offered by the startup
\* picker, sorted(df['startup'].unique()); the empty option stands for "no
\* selection"
companies(frame) == {frame[i].startup : i \in DOMAIN frame} \ {<<>>}

\* investor_analysis.py lines 19-27 and 48: the names offered by the
\* investor picker
investors_list(frame) ==
    UNION {{KeptInvestors(frame[i])[k] : k \in DOMAIN KeptInvestors(frame[i])} :
              i \in DOMAIN frame}

\* frames handed to a query operation by a caller that did not build them
\* with process_data: vertical and round may hold missing values
ApiEvents ==
    {[idx |-> 1, date |-> 20200115, startup |-> <<"O", "l", "a">>, amount |-> 5,
      vertical |-> v, subvertical |-> <<"P", "a", "y", "m", "e", "n", "t", "s">>, city |-> <<"P", "u", "n", "e">>,
      investors |-> i, round |-> r, year |-> 2020, month |-> 1, quarter |-> 1] :
        v \in {NaN, <<"F", "i", "n", "t", "e", "c", "h">>}, r \in {NaN, <<"S", "e", "e", "d">>},
        i \in {<<"A", "c", "c", "e", "l">>, <<"S", "e", "q", "u", "o", "i", "a">>, <<"A", "c", "c", "e", "l", ",", " ", "S", "e", "q", "u", "o", "i", "a">>}}

(***************************************************************************)
(* The state machine: app.py builds DataProcessor(df), calls process_data  *)
(* once per run, and the pages then call the query operations on the       *)
(* result.  op is the position of the caller: "init" before process_data,  *)
(* "ready" when a frame is at hand and no call is in progress, and the     *)
(* name of a query operation when its result has just been returned, and   *)
(* "failed" when process_data has ended in an error;                       *)
(* query and call_limit are the arguments of that call.                    *)
(***************************************************************************)
InitWith(raws) ==
    /\ columns = RequiredColumns
    /\ raw \in raws
    /\ df = <<>>
    /\ op = "init"
    /\ query = <<>>
    /\ call_limit = 0
    /\ result = [kind |-> "none"]

Init == InitWith(RowSeqs(NormRows, MaxRows))

InitInvestor == InitWith(RowSeqs(InvestorRows, MaxRows))

InitSimilarity == InitWith(SimilarityRaws(MaxSimilarityRows))

InitCompanies == InitWith(RowSeqs(CompanyRows, MaxCompanyRows))

InitFields == InitWith(RowSeqs(FieldRows, MaxFieldRows))

InitLabels == InitWith(RowSeqs(LabelRows, MaxLabelRows))

InitPickers == InitWith(RowSeqs(PickerRows, MaxPickerRows))

InitProfiles == InitWith(RowSeqs(ProfileRows, MaxProfileRows))

InitSchema ==
    /\ columns \in Headers
    /\ raw \in RowSeqs(NormRows, MaxSchemaRows)
    /\ df = <<>>
    /\ op = "init"
    /\ query = <<>>
    /\ call_limit = 0
    /\ result = [kind |-> "none"]

InitApi ==
    /\ columns = RequiredColumns
    /\ raw = <<>>
    /\ df \in RowSeqs(ApiEvents, MaxRows)
    /\ op = "ready"
    /\ query = <<>>
    /\ call_limit = 0
    /\ result = [kind |-> "none"]

\* ProcessData without the copies of lines 8 and 12: the startup column is
\* cleaned in the caller's frame
ProcessDataInPlace ==
    /\ op = "init"
    /\ df' \in process_data(raw)
    /\ raw' = [i \in DOMAIN raw |->
                  [raw[i] EXCEPT !.startup = CleanStartup(raw[i].startup)]]
    /\ op' = "ready"
    /\ UNCHANGED <<columns, query, call_limit, result>>

\* app.py lines 176-177: processed_df = data_processor.process_data().
\* The call either returns a frame or ends in the error of the first column
\* it cannot read; app.py does not catch the error, and no frame is at hand.
ProcessData ==
    /\ op = "init"
    /\ IF ColumnError(columns) = "none"
       THEN /\ df' \in process_data(raw)
            /\ op' = "ready"
            /\ UNCHANGED result
       ELSE /\ df' = df
            /\ op' = "failed"
            /\ result' = [kind |-> "raise", error |-> ColumnError(columns)]
    /\ UNCHANGED <<columns, raw, query, call_limit>>

GetCompanyInfo(q) ==
    /\ op = "ready"
    /\ result' \in get_company_info(df, q)
    /\ op' = "get_company_info"
    /\ query' = q
    /\ UNCHANGED <<columns, raw, df, call_limit>>

GetInvestorInfo(q) ==
    /\ op = "ready"
    /\ result' \in get_investor_info(df, q)
    /\ op' = "get_investor_info"
    /\ query' = q
    /\ UNCHANGED <<columns, raw, df, call_limit>>

FindSimilarCompanies(q, limit) ==
    /\ op = "ready"
    /\ result' \in find_similar_companies(df, q, limit)
    /\ op' = "find_similar_companies"
    /\ query' = q
    /\ call_limit' = limit
    /\ UNCHANGED <<columns, raw, df>>

FindSimilarInvestors(q, limit) ==
    /\ op = "ready"
    /\ result' \in find_similar_investors(df, q, limit)
    /\ op' = "find_similar_investors"
    /\ query' = q
    /\ call_limit' = limit
    /\ UNCHANGED <<columns, raw, df>>

\* the page has used the result; the frame stays at hand for the next call
Return ==
    /\ op \notin {"init", "ready", "failed"}
    /\ op' = "ready"
    /\ query' = <<>>
    /\ call_limit' = 0
    /\ result' = [kind |-> "none"]
    /\ UNCHANGED <<columns, raw, df>>

Next ==
    \/ ProcessData
    \/ \E q \in CompanyQueries : GetCompanyInfo(q)
    \/ \E q \in InvestorQueries : GetInvestorInfo(q)
    \/ \E q \in CompanyQueries, limit \in Limits : FindSimilarCompanies(q, limit)
    \/ \E q \in InvestorQueries, limit \in Limits : FindSimilarInvestors(q, limit)
    \/ Return

NextCompanies ==
    \/ ProcessData
    \/ \E q \in CompanyQueries, limit \in Limits : FindSimilarCompanies(q, limit)
    \/ Return

NextSimilarity ==
    \/ ProcessData
    \/ \E q \in SimilarityQueries : FindSimilarInvestors(q, DefaultLimit)
    \/ Return

\* company_analysis.py lines 24-47: a startup is chosen in the picker
SelectCompany == \E name \in companies(df) : GetCompanyInfo(name)

\* investor_analysis.py lines 19-55: an investor is chosen in the picker
SelectInvestor == \E name \in investors_list(df) : GetInvestorInfo(name)

NextPickers ==
    \/ ProcessData
    \/ SelectCompany
    \/ SelectInvestor
    \/ Return

NextProfiles ==
    \/ ProcessData
    \/ \E q \in InvestorQueries : GetInvestorInfo(q)
    \/ Return

NextSchema ==
    \/ ProcessData
    \/ \E q \in CompanyQueries : GetCompanyInfo(q)
    \/ Return

NextApi ==
    \/ \E q \in SimilarityQueries : GetInvestorInfo(q)
    \/ \E q \in SimilarityQueries, limit \in Limits : FindSimilarInvestors(q, limit)
    \/ Return

Spec == Init /\ [][Next]_vars

SpecInvestor == InitInvestor /\ [][Next]_vars

SpecSimilarity == InitSimilarity /\ [][NextSimilarity]_vars

SpecCompanies == InitCompanies /\ [][NextCompanies]_vars

SpecFields == InitFields /\ [][Next]_vars

SpecLabels == InitLabels /\ [][Next]_vars

SpecPickers == InitPickers /\ [][NextPickers]_vars

SpecProfiles == InitProfiles /\ [][NextProfiles]_vars

SpecSchema == InitSchema /\ [][NextSchema]_vars

SpecApi == InitApi /\ [][NextApi]_vars

(***************************************************************************)
(* Properties.                                                             *)
(***************************************************************************)
\* s contains x as a literal substring, letter case ignored
LiteralContains(s, x) ==
    \E k \in 0..(Len(s) - Len(x)) : Lower(SubSeq(s, k + 1, k + Len(x))) = Lower(x)

\* the raw row's date parses and its cleaned startup is not "Unknown"
Survives(r) == ToDatetime(r.date) # NaT /\ CleanStartup(r.startup) # Unknown

\* C1: the frame returned by process_data holds exactly one event for each
\* raw row whose date parses and whose cleaned startup is not "Unknown", and
\* no other event: no event has a null date or the startup "Unknown", a raw
\* row with an unparseable date is absent, no surviving row is lost or
\* duplicated, and the frame is never longer than the raw record set.
C1_ExactlyTheSurvivingRows ==
    op # "init" =>
        /\ \A j \in DOMAIN df : df[j].date # NaT /\ df[j].startup # Unknown
        /\ \A i \in DOMAIN raw :
               Cardinality({j \in DOMAIN df : df[j].idx = i})
                   = (IF Survives(raw[i]) THEN 1 ELSE 0)
        /\ \A j \in DOMAIN df : df[j].idx \in DOMAIN raw
        /\ Len(df) <= Len(raw)

\* C1 witness: process_data has run on a record set that holds a row with an
\* invalid month and a row that survives, and the frame is shorter
C1_Witness ==
    /\ op = "ready"
    /\ \E i \in DOMAIN raw : Len(raw[i].date) = 3 /\ raw[i].date[2] = 13
    /\ Len(df) = 1
    /\ Len(raw) = 2

\* C2: every event of the frame returned by process_data has amount >= 0
C2_AmountNonNegative ==
    op # "init" => \A j \in DOMAIN df : df[j].amount >= 0

\* C3: get_company_info selects exactly the events whose startup contains
\* the query as a literal, case-insensitive substring: it returns None when
\* there is none, and otherwise a profile whose funding_rounds is their number
C3_LiteralSubstringCount ==
    op = "get_company_info" =>
        LET n == Cardinality({j \in DOMAIN df : LiteralContains(df[j].startup, query)})
        IN  IF n = 0 THEN result.kind = "None"
            ELSE result.kind = "info" /\ result.funding_rounds = n

\* C6: normalizing the city of an event of the frame, which process_data has
\* normalized, gives the same city again
C6_CityIdempotent ==
    op # "init" => \A j \in DOMAIN df : NormalizeCity(df[j].city) = df[j].city

\* the stripped form of a token: what lies between its first and its last
\* character that is not a space
Trimmed(t) ==
    LET inked == {i \in DOMAIN t : t[i] # " "}
    IN  IF inked = {} THEN <<>>
        ELSE SubSeq(t, CHOOSE i \in inked : \A j \in inked : i <= j,
                       CHOOSE i \in inked : \A j \in inked : i >= j)

\* the comma-separated tokens of s, by the positions of its commas
CommaTokens(s) ==
    LET commas == {i \in DOMAIN s : s[i] = ","}
        cuts == commas \cup {0, Len(s) + 1}
        n == Cardinality(commas) + 1
        cut(k) == CHOOSE c \in cuts : Cardinality({d \in cuts : d < c}) = k
    IN  [k \in 1..n |-> SubSeq(s, cut(k - 1) + 1, cut(k) - 1)]

\* the investor names an investors field stands for
ExpectedInvestors(s) ==
    SelectSeq([k \in DOMAIN CommaTokens(s) |-> Trimmed(CommaTokens(s)[k])],
              LAMBDA t : t # <<>> /\ Lower(t) # <<"u", "n", "k", "n", "o", "w", "n">>)

RECURSIVE ExpectedStakeNames(_)
ExpectedStakeNames(frame) ==
    IF frame = <<>> THEN <<>>
    ELSE ExpectedInvestors(Head(frame).investors) \o ExpectedStakeNames(Tail(frame))

StakeNames(stakes) == [i \in DOMAIN stakes |-> stakes[i].investor]

\* the stakes whose investor name contains x as a literal, case-insensitive
\* substring
LiteralStakes(frame, x) ==
    SelectSeq(ExpandInvestors(frame), LAMBDA s : LiteralContains(s.investor, x))

\* C4: a profile returned by get_investor_info counts the expanded stakes
\* whose investor name case-insensitively contains the query, sums amount
\* over exactly those stakes, and averages that sum over that count
C4_LiteralStakeTotals ==
    (op = "get_investor_info" /\ result.kind = "info") =>
        LET m == LiteralStakes(df, query)
        IN  /\ result.total_investments = Len(m)
            /\ result.total_amount_invested = SumAmount(m)
            /\ result.avg_investment = <<SumAmount(m), Len(m)>>

\* C5: the expansion yields, for every event in order, one stake per
\* comma-separated token of the investors field that after trimming is not
\* empty and not "unknown" in any letter case: tokens in order, case kept,
\* nothing deduplicated; the raw field "Seq Capital, Accel, " yields exactly
\* the two stakes "Seq Capital" and "Accel"
C5_OneStakePerToken ==
    op # "init" =>
        /\ StakeNames(ExpandInvestors(df)) = ExpectedStakeNames(df)
        /\ \A j \in DOMAIN df :
               raw[df[j].idx].investors = <<"S", "e", "q", " ", "C", "a", "p", "i", "t", "a", "l", ",", " ", "A", "c", "c", "e", "l", ",", " ">> =>
                   StakeNames(EventStakes(df[j])) = <<<<"S", "e", "q", " ", "C", "a", "p", "i", "t", "a", "l">>, <<"A", "c", "c", "e", "l">>>>

\* C5 witness: the frame holds the event with investors "Seq Capital, Accel, "
\* and an event whose field repeats a name and holds "unknown" and empty
\* tokens, and the expansion has been used by a query
C5_Witness ==
    /\ op = "get_investor_info"
    /\ result.kind = "info"
    /\ \E j \in DOMAIN df : raw[df[j].idx].investors = <<"S", "e", "q", " ", "C", "a", "p", "i", "t", "a", "l", ",", " ", "A", "c", "c", "e", "l", ",", " ">>
    /\ \E j \in DOMAIN df : df[j].investors = <<"u", "n", "k", "n", "o", "w", "n", " ", ",", "A", "C", "C", "E", "L", ",", ",">>
    /\ Len(ExpandInvestors(df)) = 3

\* a / b as the fraction <<a, b>>; two fractions are equal when their cross
\* products are
FracEq(a, b) == a[1] * b[2] = b[1] * a[2]

\* the Jaccard overlap |X \cap Y| / |X \cup Y|
Jaccard(X, Y) == <<Cardinality(X \cap Y), Cardinality(X \cup Y)>>

\* the arithmetic mean of two fractions
FracMean(a, b) == <<a[1] * b[2] + b[1] * a[2], 2 * a[2] * b[2]>>

\* the set of the at most three most frequent values of a column among the
\* stakes that satisfy a test
TopOf(stakes, Test(_), col) == TopValues(SelectSeq(stakes, Test), col)

\* the investor names of the frame that the query matches
MatchedInvestors(frame, x) ==
    LET stakes == ExpandInvestors(frame)
    IN  {stakes[i].investor : i \in {k \in DOMAIN stakes : LiteralContains(stakes[k].investor, x)}}

\* C7: the similarity computed for every candidate investor is the mean of
\* the Jaccard overlap of the target's and the candidate's top-3 sector sets
\* and the Jaccard overlap of their top-3 stage sets, and lies in [0, 1]
C7_MeanOfJaccards ==
    (op = "find_similar_investors" /\ result.kind = "list") =>
      LET stakes == ExpandInvestors(df)
          ts == TopOf(stakes, LAMBDA s : LiteralContains(s.investor, query), "vertical")
          tr == TopOf(stakes, LAMBDA s : LiteralContains(s.investor, query), "round")
      IN
        \A row \in result.scored :
            LET cs == TopOf(stakes, LAMBDA s : s.investor = row.investor, "vertical")
                cr == TopOf(stakes, LAMBDA s : s.investor = row.investor, "round")
            IN  /\ Cardinality(ts) <= 3 /\ Cardinality(tr) <= 3
                /\ Cardinality(cs) <= 3 /\ Cardinality(cr) <= 3
                /\ Jaccard(ts, cs)[2] > 0 /\ Jaccard(tr, cr)[2] > 0
                /\ FracEq(row.similarity, FracMean(Jaccard(ts, cs), Jaccard(tr, cr)))
                /\ 0 <= row.similarity[1]
                /\ row.similarity[2] > 0
                /\ row.similarity[1] <= row.similarity[2]
                /\ \A i \in DOMAIN result.list :
                       result.list[i].investor = row.investor =>
                           result.list[i].similarity = row.similarity

\* C7 witness: a returned candidate scores strictly between 0 and 1 against
\* a target that invested in four sectors, of which three are kept
C7_Witness ==
    /\ op = "find_similar_investors"
    /\ result.kind = "list"
    /\ \E i \in DOMAIN result.list :
           /\ 0 < result.list[i].similarity[1]
           /\ result.list[i].similarity[1] < result.list[i].similarity[2]
    /\ LET stakes == ExpandInvestors(df)
       IN  Cardinality({stakes[i].vertical :
                           i \in {k \in DOMAIN stakes : LiteralContains(stakes[k].investor, query)}}) = 4

\* C8: when the query selects exactly investor A and B's name selects
\* exactly investor B, the score computed for B with A as target is the
\* score computed for A with B as target
C8_Symmetric ==
    (op = "find_similar_investors" /\ result.kind = "list") =>
        \A rowB \in result.scored :
          LET A == CHOOSE a \in MatchedInvestors(df, query) : TRUE
          IN
            (/\ Cardinality(MatchedInvestors(df, query)) = 1
             /\ rowB.investor # A
             /\ MatchedInvestors(df, rowB.investor) = {rowB.investor}) =>
                \A other \in find_similar_investors(df, rowB.investor, DefaultLimit) :
                    /\ other.kind = "list"
                    /\ \E rowA \in other.scored :
                           /\ rowA.investor = A
                           /\ FracEq(rowA.similarity, rowB.similarity)
                    /\ \A rowA \in other.scored :
                           rowA.investor = A => FracEq(rowA.similarity, rowB.similarity)

\* C8 witness: Accel is the target, Sequoia is returned with a score strictly
\* between 0 and 1, and the two have different sector sets
C8_Witness ==
    /\ op = "find_similar_investors"
    /\ result.kind = "list"
    /\ MatchedInvestors(df, query) = {<<"A", "c", "c", "e", "l">>}
    /\ \E i \in DOMAIN result.list :
           /\ result.list[i].investor = <<"S", "e", "q", "u", "o", "i", "a">>
           /\ 0 < result.list[i].similarity[1]
           /\ result.list[i].similarity[1] < result.list[i].similarity[2]
    /\ \E r1, r2 \in result.scored :
           Cardinality(r1.top_sectors) = 3 /\ Cardinality(r2.top_sectors) = 2

\* C9: when the query selects exactly one investor, the similarity computed
\* for that investor itself, before the target is excluded, is 1
C9_SelfSimilarityOne ==
    (op = "find_similar_investors" /\ result.kind = "list") =>
        LET matched == MatchedInvestors(df, query)
        IN  \A A \in matched :
            matched = {A} =>
                /\ \E row \in result.scored : row.investor = A
                /\ \A row \in result.scored :
                       row.investor = A =>
                           /\ row.top_sectors # {} /\ row.top_stages # {}
                           /\ row.similarity[1] = row.similarity[2]

\* C9 witness: the target invested in four sectors, another investor is
\* scored below 1, and the target's own row is scored
C9_Witness ==
    /\ op = "find_similar_investors"
    /\ result.kind = "list"
    /\ MatchedInvestors(df, query) = {<<"A", "c", "c", "e", "l">>}
    /\ \E row \in result.scored :
           row.investor = <<"A", "c", "c", "e", "l">> /\ Cardinality(row.top_sectors) = 3
    /\ \E row \in result.scored : row.similarity[1] < row.similarity[2]
    /\ LET stakes == ExpandInvestors(df)
       IN  Cardinality({stakes[i].vertical : i \in DOMAIN stakes}) = 4

C11_NoneIffNoMatch ==
    op = "get_company_info" =>
        LET matches == \E j \in DOMAIN df : LiteralContains(df[j].startup, query)
        IN  /\ result.kind # "raise"
            /\ (result.kind = "None") <=> ~matches
            /\ matches => result.kind = "info"

\* C12: get_investor_info never ends in an error, and returns None when no
\* stake's investor name contains the query, also when the expansion of the
\* frame holds no stake at all
C12_NoneWhenNoStakeMatches ==
    op = "get_investor_info" =>
        /\ result.kind # "raise"
        /\ LiteralStakes(df, query) = <<>> => result.kind = "None"

\* the positions of the events whose startup contains x
MatchingEvents(frame, x) == {j \in DOMAIN frame : LiteralContains(frame[j].startup, x)}

\* the event shares vertical, subvertical or city with the target event
SharesOneOfThree(e, target) ==
    e.vertical = target.vertical \/ e.subvertical = target.subvertical
        \/ e.city = target.city

\* C13: every company returned by find_similar_companies has a name that
\* does not contain the query, and has an event that shares vertical,
\* subvertical or city with the target, the first event of the date-descending
\* dataset whose startup contains the query
C13_PoolSharesTargetAttribute ==
    (op = "find_similar_companies" /\ result.kind = "list") =>
        \A i \in DOMAIN result.list :
            LET matching == MatchingEvents(df, query)
                first == CHOOSE j \in matching : \A k \in matching : j <= k
            IN  /\ matching # {}
                /\ ~LiteralContains(result.list[i].startup, query)
                /\ \E j \in DOMAIN df :
                       /\ df[j].startup = result.list[i].startup
                       /\ SharesOneOfThree(df[j], df[first])

\* the smaller of two numbers
Min(a, b) == IF a < b THEN a ELSE b

\* C14: the list returned by find_similar_companies holds one entry per
\* distinct startup of the candidate pool, with the sum of the startup's
\* amounts over the pool, in non-increasing order of that sum, cut to the
\* call's limit: it has exactly min(limit, number of candidate startups)
\* entries and no omitted startup has a larger sum than a returned one
C14_OnePerStartupTopByAmount ==
    (op = "find_similar_companies" /\ result.kind = "list") =>
        LET l == result.list
            names == {result.pool[i].startup : i \in DOMAIN result.pool}
            total(n) == SumAmount(SelectSeq(result.pool, LAMBDA e : e.startup = n))
            returned == {l[i].startup : i \in DOMAIN l}
        IN  /\ returned \subseteq names
            /\ \A i, j \in DOMAIN l : l[i].startup = l[j].startup => i = j
            /\ \A i \in DOMAIN l : l[i].amount = total(l[i].startup)
            /\ \A i \in 1..(Len(l) - 1) : l[i].amount >= l[i + 1].amount
            /\ Len(l) = Min(call_limit, Cardinality(names))
            /\ \A n \in names \ returned :
                   \A i \in DOMAIN l : total(n) <= l[i].amount

\* C14 witness: the pool holds two events of one startup and an event of
\* another startup with a smaller sum, and the limit 1 cuts the list to the
\* startup with the larger sum
C14_Witness ==
    /\ op = "find_similar_companies"
    /\ result.kind = "list"
    /\ call_limit = 1
    /\ Len(result.pool) = 3
    /\ Len(result.list) = 1
    /\ result.list[1].amount = 16
    /\ \E i \in DOMAIN result.pool : result.pool[i].startup = <<"K", "i", "a">>

\* C15: find_similar_companies returns the empty list, and no error, when
\* no event's startup contains the query, and when some do but no other
\* event shares vertical, subvertical or city with the first of them
C15_EmptyListNotError ==
    op = "find_similar_companies" =>
        LET matching == MatchingEvents(df, query)
            first == CHOOSE j \in matching : \A k \in matching : j <= k
            candidates == {j \in DOMAIN df \ matching :
                              SharesOneOfThree(df[j], df[first])}
        IN  (matching = {} \/ candidates = {}) =>
                (result.kind = "list" /\ result.list = <<>>)

\* the distinct investor names of the expansion of a frame
InvestorNames(frame) ==
    LET stakes == ExpandInvestors(frame)
    IN  {stakes[i].investor : i \in DOMAIN stakes}

\* C16: find_similar_investors returns the empty list when no stake's
\* investor name contains the query; otherwise it returns a list that holds
\* no investor whose name contains the query, is in non-increasing order of
\* similarity, has exactly min(limit, number of investors whose name does not
\* contain the query) entries, and leaves out no such investor that scores
\* higher than a returned one
C16_ExcludedSortedCut ==
    op = "find_similar_investors" =>
        LET l == result.list
            others == {n \in InvestorNames(df) : ~LiteralContains(n, query)}
            returned == {l[i].investor : i \in DOMAIN l}
        IN  /\ result.kind = "list"
            /\ IF MatchedInvestors(df, query) = {}
               THEN l = <<>>
               ELSE /\ returned \subseteq others
                    /\ \A i, j \in DOMAIN l : l[i].investor = l[j].investor => i = j
                    /\ \A i \in 1..(Len(l) - 1) :
                           FracGeq(l[i].similarity, l[i + 1].similarity)
                    /\ Len(l) = Min(call_limit, Cardinality(others))
                    /\ \A row \in result.scored :
                           row.investor \in others \ returned =>
                               \A i \in DOMAIN l :
                                   FracGeq(l[i].similarity, row.similarity)

\* the outcomes of the query operation o on a frame with the arguments q, n
Outcomes(o, frame, q, n) ==
    CASE o = "get_company_info" -> get_company_info(frame, q)
      [] o = "get_investor_info" -> get_investor_info(frame, q)
      [] o = "find_similar_companies" -> find_similar_companies(frame, q, n)
      [] o = "find_similar_investors" -> find_similar_investors(frame, q, n)

HeaderLabels(cols) == {<<i, Lower(Trimmed(cols[i]))>> : i \in DOMAIN cols}

\* the required columns that no label of the header names
AbsentColumns(cols) ==
    LET labels == HeaderLabels(cols)
    IN  {c \in {RequiredColumns[k] : k \in DOMAIN RequiredColumns} :
            \A p \in labels : p[2] # c}

\* the required columns that several labels of the header name
RepeatedColumns(cols) ==
    LET labels == HeaderLabels(cols)
    IN  {c \in {RequiredColumns[k] : k \in DOMAIN RequiredColumns} :
            \E p, q \in labels : p[1] # q[1] /\ p[2] = c /\ q[2] = c}

\* C18 as stated: process_data fails, with an error that reaches the caller
\* and without a frame, exactly when a required column is absent from the
\* raw input
C18_FailsOnlyOnAbsentColumn ==
    op # "init" =>
        /\ (op = "failed") <=> (AbsentColumns(columns) # {})
        /\ op = "failed" => (result.kind = "raise" /\ df = <<>>)

\* C18, amended: process_data fails, with an error that reaches the caller
\* and without a frame, exactly when a required column is absent from the
\* raw input or named by several labels of its header; the error is KeyError
\* when no required column is named by several labels
C18_FailsIffColumnAbsentOrRepeated ==
    op # "init" =>
        LET absent == AbsentColumns(columns)
            repeated == RepeatedColumns(columns)
        IN  /\ (op = "failed") <=> (absent # {} \/ repeated # {})
            /\ op = "failed" => (result.kind = "raise" /\ df = <<>>)
            /\ (op = "failed" /\ repeated = {}) => result.error = "KeyError"

\* C18 witness: process_data has failed with KeyError on a raw input whose
\* header lacks the column startup and holds the label " Date "
C18_Witness ==
    /\ op = "failed"
    /\ result = [kind |-> "raise", error |-> "KeyError"]
    /\ AbsentColumns(columns) = {<<"s", "t", "a", "r", "t", "u", "p">>}
    /\ columns[1] = <<" ", "D", "a", "t", "e", " ">>
    /\ raw # <<>>

\* the cell holds a whole number, with or without a minus sign
IsNumeral(v) ==
    /\ v # NaN
    /\ v # <<>>
    /\ \A i \in DOMAIN v : IsDigit(v[i]) \/ (i = 1 /\ v[i] = "-" /\ Len(v) > 1)

\* the cell is missing, empty, made of spaces, or the text "nan"
IsBlank(v) == v = NaN \/ Trimmed(v) = <<>> \/ Trimmed(v) = <<"n", "a", "n">>

CategoryColumns == {"vertical", "subvertical", "city", "investors", "round"}

\* C19: on a raw input with all required columns process_data does not fail;
\* a raw row is dropped when its date does not parse and kept otherwise
\* (its startup being a name); in every event a missing or non-numeric amount
\* has become 0, a missing, empty, blank or "nan" vertical, subvertical, city,
\* investors or round has become "Unknown", and none of these five fields is
\* "" or "nan"
C19_MalformedFieldsDegrade ==
    op # "init" =>
        /\ op # "failed"
        /\ \A i \in DOMAIN raw :
               Cardinality({j \in DOMAIN df : df[j].idx = i})
                   = (IF ToDatetime(raw[i].date) = NaT THEN 0 ELSE 1)
        /\ \A j \in DOMAIN df :
               LET r == raw[df[j].idx]
               IN  /\ ~IsNumeral(r.amount) => df[j].amount = 0
                   /\ \A col \in CategoryColumns :
                          /\ IsBlank(r[col]) => df[j][col] = Unknown
                          /\ df[j][col] \notin {<<>>, <<"n", "a", "n">>}

\* C19 witness: of two raw rows the one whose date does not parse has been
\* dropped, and the other, with a non-numeric amount and blank categories,
\* is an event with amount 0 and "Unknown" categories
C19_Witness ==
    /\ op = "ready"
    /\ Len(raw) = 2
    /\ Len(df) = 1
    /\ raw[df[1].idx].amount = <<"x">>
    /\ raw[df[1].idx].city = <<>>
    /\ df[1].amount = 0
    /\ df[1].city = Unknown
    /\ \E i \in DOMAIN raw : raw[i].date = <<2021, 2, 29>>

\* C20: every startup of the frame returned by process_data has no leading
\* or trailing space, holds no single or double quote, and does not begin
\* with http:// or https://
C20_StartupTrimmedUnquotedNoUrl ==
    op # "init" =>
        \A j \in DOMAIN df :
            LET s == df[j].startup
            IN  /\ s = Trimmed(s)
                /\ \A i \in DOMAIN s : s[i] \notin {"'", "\""}
                /\ ~StartsWith(s, <<"h", "t", "t", "p", ":", "/", "/">>)
                /\ ~StartsWith(s, <<"h", "t", "t", "p", "s", ":", "/", "/">>)

\* C21: the frame returned by process_data is in non-increasing order of
\* date, and events of equal date are in the order of their rows in the raw
\* input
C21_DateDescendingStable ==
    op \notin {"init", "failed"} =>
        \A i \in 1..(Len(df) - 1) :
            /\ df[i].date >= df[i + 1].date
            /\ df[i].date = df[i + 1].date => df[i].idx < df[i + 1].idx

\* the title-cased form of a text: a letter that starts a run of letters is
\* in upper case, every other letter in lower case
TitleCased(s) ==
    [i \in DOMAIN s |->
        IF IsCased(s[i]) /\ (i = 1 \/ ~IsCased(s[i - 1]))
        THEN UpperChar(s[i]) ELSE LowerChar(s[i])]

\* the city alias table
CityAliases ==
    { <<<<"B", "e", "n", "g", "a", "l", "u", "r", "u">>, <<"B", "a", "n", "g", "a", "l", "o", "r", "e">>>>,
      <<<<"K", "o", "r", "m", "a", "n", "g", "a", "l", "a">>, <<"B", "a", "n", "g", "a", "l", "o", "r", "e">>>>,
      <<<<"G", "u", "r", "g", "a", "o", "n">>, <<"G", "u", "r", "u", "g", "r", "a", "m">>>>,
      <<<<"N", "e", "w", " ", "D", "e", "l", "h", "i">>, <<"D", "e", "l", "h", "i">>>>,
      <<<<"N", "o", "i", "d", "a">>, <<"D", "e", "l", "h", "i", " ", "N", "C", "R">>>>,
      <<<<"F", "a", "r", "i", "d", "a", "b", "a", "d">>, <<"D", "e", "l", "h", "i", " ", "N", "C", "R">>>> }

\* the image of a text under a table of (key, value) pairs: the value of the
\* pair whose key is the text, the text itself when no pair has that key
ImageUnder(table, s) ==
    IF \E p \in table : p[1] = s
    THEN (CHOOSE p \in table : p[1] = s)[2]
    ELSE s

\* C22: the city of every event is the alias-table image of the title-cased,
\* trimmed raw city (a raw city that is not missing or blank): the alias
\* when the title-cased text is a key of the table, the title-cased text
\* otherwise; "noida" and "NOIDA" both give "Delhi NCR"
C22_CityIsAliasOfTitleCase ==
    op \notin {"init", "failed"} =>
        \A j \in DOMAIN df :
            LET c == raw[df[j].idx].city
            IN  ~IsBlank(c) =>
                    /\ df[j].city = ImageUnder(CityAliases, TitleCased(Trimmed(c)))
                    /\ c \in {<<"n", "o", "i", "d", "a">>, <<"N", "O", "I", "D", "A">>} => df[j].city = <<"D", "e", "l", "h", "i", " ", "N", "C", "R">>

\* C22 witness: process_data has turned the raw city "NOIDA" into "Delhi NCR"
C22_Witness ==
    /\ op = "ready"
    /\ \E j \in DOMAIN df :
           raw[df[j].idx].city = <<"N", "O", "I", "D", "A">> /\ df[j].city = <<"D", "e", "l", "h", "i", " ", "N", "C", "R">>

\* the round table as a set of (key, value) pairs
RoundTable == {round_mapping[i] : i \in DOMAIN round_mapping}

\* C23: the round of every event is the table's image of the trimmed raw
\* round (a raw round that is not missing or blank) when that text is a key
\* of the table, and the trimmed text unchanged otherwise; "Seed Round" and
\* "Seed Funding" give "Seed", "Pre-series A" gives "Pre-Series A", "Debt
\* Funding" gives "Debt"; and the table applied to the event's round gives
\* the same round again
C23_RoundIsTableImage ==
    op \notin {"init", "failed"} =>
        \A j \in DOMAIN df :
            LET r == raw[df[j].idx].round
            IN  /\ ~IsBlank(r) =>
                    /\ df[j].round = ImageUnder(RoundTable, Trimmed(r))
                    /\ r \in {<<"S", "e", "e", "d", " ", "R", "o", "u", "n", "d">>, <<"S", "e", "e", "d", " ", "F", "u", "n", "d", "i", "n", "g">>} => df[j].round = <<"S", "e", "e", "d">>
                    /\ r = <<"P", "r", "e", "-", "s", "e", "r", "i", "e", "s", " ", "A">> => df[j].round = <<"P", "r", "e", "-", "S", "e", "r", "i", "e", "s", " ", "A">>
                    /\ r = <<"D", "e", "b", "t", " ", "F", "u", "n", "d", "i", "n", "g">> => df[j].round = <<"D", "e", "b", "t">>
                    /\ (\A p \in RoundTable : p[1] # Trimmed(r)) =>
                           df[j].round = Trimmed(r)
                /\ NormalizeRound(df[j].round) = df[j].round

\* C23 witness: process_data has turned the raw round "Pre-series A" into
\* "Pre-Series A"
C23_Witness ==
    /\ op = "ready"
    /\ \E j \in DOMAIN df :
           /\ raw[df[j].idx].round = <<"P", "r", "e", "-", "s", "e", "r", "i", "e", "s", " ", "A">>
           /\ df[j].round = <<"P", "r", "e", "-", "S", "e", "r", "i", "e", "s", " ", "A">>

\* C24: the name, industry, subindustry and location of a profile returned
\* by get_company_info are those of one event of the dataset that is among
\* the matched events (the rows of funding_history), and no matched event
\* is more recent: that event's date is the profile's last_funding_date
C24_ProfileFromMostRecentEvent ==
    (op = "get_company_info" /\ result.kind = "info") =>
        \E j \in DOMAIN df :
            /\ \E h \in DOMAIN result.funding_history :
                   result.funding_history[h].idx = df[j].idx
            /\ result.name = df[j].startup
            /\ result.industry = df[j].vertical
            /\ result.subindustry = df[j].subvertical
            /\ result.location = df[j].city
            /\ df[j].date = result.last_funding_date
            /\ \A h \in DOMAIN result.funding_history :
                   result.funding_history[h].date <= df[j].date

\* C24 witness: the query has matched events of two companies with
\* different dates, and the profile carries the name of the later one
C24_Witness ==
    /\ op = "get_company_info"
    /\ result.kind = "info"
    /\ result.funding_rounds = 2
    /\ result.first_funding_date < result.last_funding_date
    /\ \E i, j \in DOMAIN df :
           /\ df[i].startup # df[j].startup
           /\ df[i].date < df[j].date
           /\ result.name = df[j].startup
           /\ result.location = df[j].city
           /\ df[i].city # df[j].city

\* C25: in a profile returned by get_company_info, funding_history holds
\* funding_rounds rows, each the projection of a different event of the
\* dataset, among them every event whose startup contains the query, in
\* non-decreasing order of date; total_funding is the sum of its amounts;
\* first_funding_date and last_funding_date are the dates of its first and
\* last rows, and first_funding_date <= last_funding_date
C25_HistoryInvariants ==
    (op = "get_company_info" /\ result.kind = "info") =>
        LET h == result.funding_history
        IN  /\ Len(h) = result.funding_rounds
            /\ Len(h) >= 1
            /\ \A a, b \in DOMAIN h : h[a].idx = h[b].idx => a = b
            /\ \A a \in DOMAIN h :
                   \E j \in DOMAIN df :
                       /\ df[j].idx = h[a].idx
                       /\ h[a] = [idx |-> df[j].idx, date |-> df[j].date,
                                  round |-> df[j].round, amount |-> df[j].amount,
                                  investors |-> df[j].investors]
            /\ \A j \in MatchingEvents(df, query) :
                   \E a \in DOMAIN h : h[a].idx = df[j].idx
            /\ \A a \in 1..(Len(h) - 1) : h[a].date <= h[a + 1].date
            /\ result.total_funding = SumAmount(h)
            /\ result.first_funding_date = h[1].date
            /\ result.last_funding_date = h[Len(h)].date
            /\ result.first_funding_date <= result.last_funding_date

\* C25 witness: a profile over two matched events of different dates and
\* amounts, the earlier one first in funding_history
C25_Witness ==
    /\ op = "get_company_info"
    /\ result.kind = "info"
    /\ Len(result.funding_history) = 2
    /\ result.funding_history[1].date < result.funding_history[2].date
    /\ result.funding_history[1].amount = 12
    /\ result.funding_history[2].amount = 5
    /\ result.total_funding = 17

\* C26: get_company_info called with a name of the startup picker returns
\* a profile that counts at least the events carrying that name, and
\* get_investor_info called with a name of the investor picker returns a
\* profile that counts at least the stakes carrying that name
C26_PickerNamesResolve ==
    /\ (op = "get_company_info" /\ query \in companies(df)) =>
           /\ result.kind = "info"
           /\ result.funding_rounds >=
                  Cardinality({j \in DOMAIN df : df[j].startup = query})
    /\ (op = "get_investor_info" /\ query \in InvestorNames(df)) =>
           /\ result.kind = "info"
           /\ result.total_investments >=
                  Len(SelectSeq(ExpandInvestors(df), LAMBDA s : s.investor = query))

\* C27: every stake of the expansion carries its event's startup, date,
\* amount, round, vertical, city and year unchanged; an event with k
\* surviving investor tokens yields k stakes whose amounts sum to k times the
\* event's amount
C27_StakeCopiesEvent ==
    op = "get_investor_info" =>
        \A j \in DOMAIN df :
            LET stakes == EventStakes(df[j])
                k == Len(ExpectedInvestors(df[j].investors))
            IN  /\ Len(stakes) = k
                /\ \A i \in DOMAIN stakes :
                       /\ stakes[i].startup = df[j].startup
                       /\ stakes[i].date = df[j].date
                       /\ stakes[i].amount = df[j].amount
                       /\ stakes[i].round = df[j].round
                       /\ stakes[i].vertical = df[j].vertical
                       /\ stakes[i].city = df[j].city
                       /\ stakes[i].year = df[j].year
                       /\ stakes[i].year = df[j].date \div 10000
                /\ SumAmount(stakes) = k * df[j].amount

\* C27 witness: an event with two surviving investor tokens has been
\* expanded, and the amount a profile reports as invested exceeds the total
\* funding of the dataset
C27_Witness ==
    /\ op = "get_investor_info"
    /\ result.kind = "info"
    /\ \E j \in DOMAIN df : Len(EventStakes(df[j])) = 2 /\ df[j].amount > 0
    /\ result.total_amount_invested > SumAmount(df)

\* C28: the amount find_similar_companies reports for a returned company is
\* the sum of amount over the events of exactly that startup name that share
\* vertical, subvertical or city with the target (the first event the call
\* matched), its date is the latest date of those events, and the amount is
\* never greater than the sum over all events of that startup
C28_SumOverPoolEventsOnly ==
    (op = "find_similar_companies" /\ result.kind = "list" /\ result.matched) =>
        LET target == StrContains(df, "startup", query)[1]
            all(n) == SelectSeq(df, LAMBDA e : e.startup = n)
            own(n) == SelectSeq(all(n), LAMBDA e : SharesAttribute(e, target))
        IN  \A i \in DOMAIN result.list :
                LET r == result.list[i]
                IN  /\ own(r.startup) # <<>>
                    /\ r.amount = SumAmount(own(r.startup))
                    /\ r.date = MaxDate(own(r.startup))
                    /\ (\A j \in DOMAIN df : df[j].amount >= 0) =>
                           r.amount <= SumAmount(all(r.startup))

\* C28 witness: a returned company has one event inside the candidate pool
\* and a later-listed event outside it, and the reported amount is strictly
\* less than the sum over all its events
C28_Witness ==
    /\ op = "find_similar_companies"
    /\ result.kind = "list"
    /\ \E i \in DOMAIN result.list :
           /\ result.list[i].startup = <<"Z", "e", "d">>
           /\ result.list[i].amount = 12
           /\ result.list[i].date = 20200114
           /\ SumAmount(SelectSeq(df, LAMBDA e : e.startup = <<"Z", "e", "d">>)) = 16

\* C29: a raw row whose startup is missing (null) never appears in the frame
\* returned by process_data, just as a raw row whose date is missing never
\* appears
C29_MissingStartupOrDateDropped ==
    op \notin {"init", "failed"} =>
        \A i \in DOMAIN raw :
            (raw[i].startup = NaN \/ raw[i].date = <<>>) =>
                \A j \in DOMAIN df : df[j].idx # i

\* the half of C29 about the date: a raw row whose date is missing never
\* appears in the frame
C29_MissingDateDropped ==
    op \notin {"init", "failed"} =>
        \A i \in DOMAIN raw :
            raw[i].date = <<>> => \A j \in DOMAIN df : df[j].idx # i

RECURSIVE SumCounts(_)
\* the sum of the counts of a frequency table
SumCounts(counts) ==
    IF counts = <<>> THEN 0 ELSE Head(counts).count + SumCounts(Tail(counts))

RECURSIVE SumYearCounts(_)
\* the sum of the per-year investment counts
SumYearCounts(years) ==
    IF years = <<>> THEN 0 ELSE Head(years).startup + SumYearCounts(Tail(years))

\* the number of rows of the frame equal to x
Occurrences(frame, x) == Cardinality({i \in DOMAIN frame : frame[i] = x})

\* C30: in every profile returned by get_investor_info the per-year counts
\* sum to total_investments and the per-year amounts to
\* total_amount_invested, the counts of sectors, of stages and of cities each
\* sum to total_investments, and recent_investments and biggest_investments
\* each hold min(10, total_investments) of the matched stakes, the latest by
\* date descending and the largest by amount descending
C30_BreakdownsPartitionStakes ==
    (op = "get_investor_info" /\ result.kind = "info") =>
        LET matched == StrContains(ExpandInvestors(df), "investor", query)
            recent == result.recent_investments
            biggest == result.biggest_investments
            n == Min(10, result.total_investments)
        IN  /\ result.total_investments = Len(matched)
            /\ SumYearCounts(result.yearly_investments) = result.total_investments
            /\ SumAmount(result.yearly_investments) = result.total_amount_invested
            /\ \A i, j \in DOMAIN result.yearly_investments :
                   result.yearly_investments[i].year = result.yearly_investments[j].year
                       => i = j
            /\ SumCounts(result.sectors) = result.total_investments
            /\ SumCounts(result.stages) = result.total_investments
            /\ SumCounts(result.cities) = result.total_investments
            /\ Len(recent) = n
            /\ Len(biggest) = n
            /\ \A i \in DOMAIN recent :
                   Occurrences(recent, recent[i]) <= Occurrences(matched, recent[i])
            /\ \A i \in DOMAIN biggest :
                   Occurrences(biggest, biggest[i]) <= Occurrences(matched, biggest[i])
            /\ \A i \in 1..(n - 1) :
                   /\ recent[i].date >= recent[i + 1].date
                   /\ biggest[i].amount >= biggest[i + 1].amount
            /\ Cardinality({i \in DOMAIN matched : matched[i].date > recent[n].date})
                   = Cardinality({i \in DOMAIN recent : recent[i].date > recent[n].date})
            /\ Cardinality({i \in DOMAIN matched : matched[i].amount > biggest[n].amount})
                   = Cardinality({i \in DOMAIN biggest : biggest[i].amount > biggest[n].amount})

\* C30 witness: a profile over twelve matched stakes of two years, two
\* sectors and two cities, of which the two lists hold ten each
C30_Witness ==
    /\ op = "get_investor_info"
    /\ result.kind = "info"
    /\ result.total_investments = 12
    /\ Len(result.recent_investments) = 10
    /\ Len(result.biggest_investments) = 10
    /\ Len(result.yearly_investments) = 2
    /\ Len(result.sectors) = 2
    /\ Len(result.cities) = 2
    /\ result.recent_investments # result.biggest_investments

====
